---- MODULE Spec2Model ----
(***************************************************************************)
(* A model of the QB25 BASIC interpreter (lib/tokenizer.ts, lib/parser.ts, *)
(* lib/types.ts, lib/interpreter.ts).                                      *)
(*                                                                         *)
(* The state machines of the module:                                       *)
(*   Spec       the evaluator: execute() on a parsed statement list, one   *)
(*              action per statement handler of Interpreter, the call      *)
(*              stack of executeStatement kept as an explicit stack of     *)
(*              frames;                                                    *)
(*   SpecParse  the expression parser: parseExpression on a token list;    *)
(*   SpecRepl   several execute calls on one Interpreter instance;         *)
(*   SpecSource execute() on a source text: tokenize, parse, run;          *)
(*   SpecTokens tokenize on a source text;                                 *)
(*   SpecFor    FOR loops followed to their end, under weak fairness.      *)
(*                                                                         *)
(* JavaScript values are tagged records; JavaScript strings are sequences  *)
(* of one-character strings so that conversions are computed, not assumed; *)
(* numbers are exact rationals n/d plus the non-finite doubles.            *)
(***************************************************************************)
EXTENDS Integers, Sequences, FiniteSets, TLC

\* ------------------------------------------------------------------ bounds
\* Longest statement list drawn for the GOTO/label program family.
MaxProg == 3
\* Longest statement list drawn for the variable/array program family.
MaxVarProg == 2
\* FOR start and end values range over -ForRange .. ForRange.
ForRange == 2
\* The line writer accepts at most this many lines (caps runaway loops).
MaxOutput == 4
\* A FOR loop is followed for at most this many iterations.
MaxIter == 8
\* Most binary operators in an operator chain handed to the parser.
MaxChain == 2
\* execute calls made on one Interpreter instance
MaxCalls == 2
\* the largest N of the counting loop L: C = C + 1: IF C < N THEN GOTO L
MaxCount == 3
\* the most lines of a program of block openers and closers
MaxBlockLines == 3
\* the most characters of a source text handed to tokenize alone
MaxSource == 3

\* ------------------------------------------------------------ JS numbers
Abs(x) == IF x < 0 THEN -x ELSE x

Max(x, y) == IF x >= y THEN x ELSE y

RECURSIVE Gcd(_, _)
Gcd(x, y) == IF y = 0 THEN x ELSE Gcd(y, x % y)

\* floor(x / y) for any nonzero integer y
FloorDiv(x, y) == IF y > 0 THEN x \div y ELSE (-x) \div (-y)

\* A finite number n/d in lowest terms with d > 0.
Rat(n, d) ==
    LET s == IF d < 0 THEN -1 ELSE 1
        g == Gcd(Abs(n), Abs(d))
    IN [t |-> "number", k |-> "fin", n |-> (s * n) \div g, d |-> (s * d) \div g]

Num(n) == [t |-> "number", k |-> "fin", n |-> n, d |-> 1]

Infinity == [t |-> "number", k |-> "inf", n |-> 1, d |-> 1]

NegInfinity == [t |-> "number", k |-> "inf", n |-> -1, d |-> 1]

NaN == [t |-> "number", k |-> "nan", n |-> 0, d |-> 1]

Str(s) == [t |-> "string", s |-> s]

Bool(b) == [t |-> "boolean", b |-> b]

Arr(a) == [t |-> "array", a |-> a]

TypeOf(v) == IF v.t = "array" THEN "object" ELSE v.t

IsFin(x) == x.k = "fin"

IsNaN(x) == x.k = "nan"

\* sign of a number: -1, 0, 1 (NaN has none and is never asked)
Sign(x) == IF x.n > 0 THEN 1 ELSE IF x.n < 0 THEN -1 ELSE 0

NumNeg(x) == [x EXCEPT !.n = -x.n]

NumAdd(x, y) ==
    IF IsNaN(x) \/ IsNaN(y) THEN NaN
    ELSE IF IsFin(x) /\ IsFin(y) THEN Rat(x.n * y.d + y.n * x.d, x.d * y.d)
    ELSE IF IsFin(x) THEN y
    ELSE IF IsFin(y) THEN x
    ELSE IF x.n = y.n THEN x ELSE NaN

NumSub(x, y) == NumAdd(x, NumNeg(y))

NumMul(x, y) ==
    IF IsNaN(x) \/ IsNaN(y) THEN NaN
    ELSE IF IsFin(x) /\ IsFin(y) THEN Rat(x.n * y.n, x.d * y.d)
    ELSE IF Sign(x) * Sign(y) = 0 THEN NaN
    ELSE IF Sign(x) * Sign(y) > 0 THEN Infinity ELSE NegInfinity

\* JS left / right for right # 0
NumDiv(x, y) ==
    IF IsNaN(x) \/ IsNaN(y) THEN NaN
    ELSE IF IsFin(x) /\ IsFin(y) THEN Rat(x.n * y.d, x.d * y.n)
    ELSE IF IsFin(x) THEN Num(0)
    ELSE IF IsFin(y) THEN (IF Sign(x) * Sign(y) > 0 THEN Infinity ELSE NegInfinity)
    ELSE NaN

\* JS x < y on numbers (false whenever a NaN is involved)
NumLt(x, y) ==
    IF IsNaN(x) \/ IsNaN(y) THEN FALSE
    ELSE IF IsFin(x) /\ IsFin(y) THEN x.n * y.d < y.n * x.d
    ELSE IF IsFin(x) THEN y.n > 0
    ELSE IF IsFin(y) THEN x.n < 0
    ELSE x.n < y.n

\* JS x === y on numbers
NumEq(x, y) == ~IsNaN(x) /\ ~IsNaN(y) /\ x = y

NumLe(x, y) == NumLt(x, y) \/ NumEq(x, y)

\* Math.floor
NumFloor(x) == IF IsFin(x) THEN Num(FloorDiv(x.n, x.d)) ELSE x

\* Number.isInteger
IsInteger(x) == IsFin(x) /\ x.d = 1

\* ------------------------------------------------------------ JS strings
Digits == <<"0", "1", "2", "3", "4", "5", "6", "7", "8", "9">>

IsDigit(c) == \E i \in 1..10 : Digits[i] = c

DigitVal(c) == (CHOOSE i \in 1..10 : Digits[i] = c) - 1

\* decimal digits of a natural number
RECURSIVE NatToStr(_)
NatToStr(n) == IF n < 10 THEN <<Digits[n + 1]>> ELSE NatToStr(n \div 10) \o <<Digits[(n % 10) + 1]>>

\* the fractional digits of r/d (0 <= r < d), at most left of them
RECURSIVE FracDigits(_, _, _)
FracDigits(r, d, left) ==
    IF r = 0 \/ left = 0 THEN <<>>
    ELSE <<Digits[((r * 10) \div d) + 1]>> \o FracDigits((r * 10) % d, d, left - 1)

\* Number.prototype.toString for the numbers the model holds
NumToStr(x) ==
    IF IsNaN(x) THEN <<"N", "a", "N">>
    ELSE IF ~IsFin(x) THEN
        (IF x.n < 0 THEN <<"-">> ELSE <<>>) \o <<"I", "n", "f", "i", "n", "i", "t", "y">>
    ELSE LET a == Abs(x.n)
             whole == NatToStr(a \div x.d)
             frac == FracDigits(a % x.d, x.d, 16)
         IN (IF x.n < 0 THEN <<"-">> ELSE <<>>) \o whole
            \o (IF frac = <<>> THEN <<>> ELSE <<".">> \o frac)

\* String(v)
RECURSIVE ToStr(_)
RECURSIVE JoinArr(_)
JoinArr(a) ==
    IF a = <<>> THEN <<>>
    ELSE IF Len(a) = 1 THEN ToStr(a[1])
    ELSE ToStr(a[1]) \o <<",">> \o JoinArr(Tail(a))

ToStr(v) ==
    CASE v.t = "string" -> v.s
      [] v.t = "number" -> NumToStr(v)
      [] v.t = "boolean" -> IF v.b THEN <<"t", "r", "u", "e">> ELSE <<"f", "a", "l", "s", "e">>
      [] v.t = "array" -> JoinArr(v.a)

\* value of a run of decimal digits
RECURSIVE DigitsVal(_)
DigitsVal(s) == IF s = <<>> THEN 0 ELSE DigitsVal(SubSeq(s, 1, Len(s) - 1)) * 10 + DigitVal(s[Len(s)])

AllDigits(s) == \A i \in 1..Len(s) : IsDigit(s[i])

RECURSIVE Pow10(_)
Pow10(k) == IF k = 0 THEN 1 ELSE 10 * Pow10(k - 1)

IsSpace(c) == c = " "

RECURSIVE TrimStart(_)
TrimStart(s) == IF s # <<>> /\ IsSpace(s[1]) THEN TrimStart(Tail(s)) ELSE s

RECURSIVE TrimEnd(_)
TrimEnd(s) == IF s # <<>> /\ IsSpace(s[Len(s)]) THEN TrimEnd(SubSeq(s, 1, Len(s) - 1)) ELSE s

Trim(s) == TrimEnd(TrimStart(s))

\* Number(s) on an unsigned decimal literal digits[.digits] or .digits
UnsignedToNum(s) ==
    LET dots == {i \in 1..Len(s) : s[i] = "."}
    IN IF s = <<>> THEN NaN
       ELSE IF dots = {} THEN (IF AllDigits(s) THEN Num(DigitsVal(s)) ELSE NaN)
       ELSE IF Cardinality(dots) > 1 THEN NaN
       ELSE LET p == CHOOSE i \in dots : TRUE
                w == SubSeq(s, 1, p - 1)
                f == SubSeq(s, p + 1, Len(s))
            IN IF (w = <<>> /\ f = <<>>) \/ ~AllDigits(w) \/ ~AllDigits(f) THEN NaN
               ELSE Rat(DigitsVal(w) * Pow10(Len(f)) + DigitsVal(f), Pow10(Len(f)))

\* Number(s): the string-to-number conversion (decimal literals, optional
\* sign, surrounding blanks, the empty string is 0, Infinity)
StrToNum(s0) ==
    LET s == Trim(s0)
        inf == <<"I", "n", "f", "i", "n", "i", "t", "y">>
    IN IF s = <<>> THEN Num(0)
       ELSE IF s = inf \/ s = <<"+">> \o inf THEN Infinity
       ELSE IF s = <<"-">> \o inf THEN NegInfinity
       ELSE IF s[1] = "-" THEN
            (LET u == UnsignedToNum(Tail(s)) IN IF IsNaN(u) THEN NaN ELSE NumNeg(u))
       ELSE IF s[1] = "+" THEN UnsignedToNum(Tail(s))
       ELSE UnsignedToNum(s)

\* Number(v)
ToNumber(v) ==
    CASE v.t = "number" -> v
      [] v.t = "string" -> StrToNum(v.s)
      [] v.t = "boolean" -> IF v.b THEN Num(1) ELSE Num(0)
      [] v.t = "array" -> StrToNum(ToStr(v))

\* JS truthiness: Boolean(v), the test of if (...) and while (...)
Truthy(v) ==
    CASE v.t = "number" -> ~IsNaN(v) /\ v.n # 0
      [] v.t = "string" -> v.s # <<>>
      [] v.t = "boolean" -> v.b
      [] v.t = "array" -> TRUE

\* characters in UTF-16 code-unit order (the order JS compares strings by)
Alphabet ==
    <<" ", "+", ",", "-", ".", "0", "1", "2", "3", "4", "5", "6", "7", "8", "9", "=",
      "A", "B", "C", "D", "E", "F", "G", "H", "I", "J", "K", "L", "M", "N", "O", "P", "Q",
      "R", "S", "T", "U", "V", "W", "X", "Y", "Z",
      "a", "b", "c", "d", "e", "f", "g", "h", "i", "j", "k", "l", "m", "n", "o", "p", "q",
      "r", "s", "t", "u", "v", "w", "x", "y", "z">>

CharOrd(c) == CHOOSE i \in 1..Len(Alphabet) : Alphabet[i] = c

\* JS a < b on strings
RECURSIVE StrLt(_, _)
StrLt(a, b) ==
    IF b = <<>> THEN FALSE
    ELSE IF a = <<>> THEN TRUE
    ELSE IF a[1] = b[1] THEN StrLt(Tail(a), Tail(b))
    ELSE CharOrd(a[1]) < CharOrd(b[1])

\* ------------------------------------------------------------- lib/types.ts
QBTypes == {"INTEGER", "SINGLE", "DOUBLE", "STRING"}

\* a default that is 0 for every type
getDefaultValueZero(type) == Num(0)

getDefaultValue(type) == IF type = "STRING" THEN Str(<<>>) ELSE Num(0)

\* validateType throws on a mismatch and returns true otherwise:
\* "" for a pass, else the message thrown
validateType(type, value) ==
    CASE value.t = "array" -> "Type mismatch in array"
      [] type = "INTEGER" ->
            IF value.t # "number" \/ ~IsInteger(value)
            THEN "Type mismatch: expected INTEGER" ELSE ""
      [] type \in {"SINGLE", "DOUBLE"} ->
            IF value.t # "number" THEN "Type mismatch: expected " \o type ELSE ""
      [] type = "STRING" ->
            IF value.t # "string" THEN "Type mismatch: expected STRING" ELSE ""
      [] OTHER -> "Invalid type"

\* --------------------------------------------------- thrown objects, results
\* new Error(message); detail is the interpolated part of the message
Err(message, detail) == [message |-> message, detail |-> detail]

\* the object executeGoto throws
GotoSignal(targetIndex) == [isGoto |-> TRUE, targetIndex |-> targetIndex]

Ok(v) == [ok |-> TRUE, v |-> v]

Fail(e) == [ok |-> FALSE, e |-> e]

\* ---------------------------------------------- the variable environment
\* Map<string, TypedVariable>: a function whose domain is the set of keys
NoVars == [n \in {} |-> 0]

MapSet(m, key, val) == [n \in DOMAIN m \cup {key} |-> IF n = key THEN val ELSE m[n]]

TypedVariable(name, type, value) == [name |-> name, type |-> type, value |-> value]

\* ------------------------------------------------ expression evaluation
\* left / right as the number arithmetic alone gives it: 0 / 0 is NaN and
\* a negative number over zero is -Infinity
DivideUnguarded(left, right) ==
    IF right # Num(0) THEN NumDiv(left, right)
    ELSE IF IsNaN(left) \/ left = Num(0) THEN NaN
    ELSE IF left.n > 0 THEN Infinity ELSE NegInfinity

\* case "/": right === 0 ? Infinity : left / right
Divide(left, right) == IF right = Num(0) THEN Infinity ELSE NumDiv(left, right)

\* the operator part of the BinaryExpression case, both operands evaluated
EvalBinary(operator, left, right) ==
    IF operator = "+" /\ (left.t = "string" \/ right.t = "string")
    THEN Ok(Str(ToStr(left) \o ToStr(right)))
    ELSE IF operator \in {"AND", "OR"} THEN
        LET leftBool == IF left.t = "boolean" THEN left.b ELSE left # Num(0)
            rightBool == IF right.t = "boolean" THEN right.b ELSE right # Num(0)
        IN Ok(Bool(IF operator = "AND" THEN leftBool /\ rightBool ELSE leftBool \/ rightBool))
    ELSE IF left.t = "number" /\ right.t = "number" THEN
        CASE operator = "+" -> Ok(NumAdd(left, right))
          [] operator = "-" -> Ok(NumSub(left, right))
          [] operator = "*" -> Ok(NumMul(left, right))
          [] operator = "/" -> Ok(Divide(left, right))
          [] operator = "=" -> Ok(Bool(NumEq(left, right)))
          [] operator = "<>" -> Ok(Bool(~NumEq(left, right)))
          [] operator = ">" -> Ok(Bool(NumLt(right, left)))
          [] operator = "<" -> Ok(Bool(NumLt(left, right)))
          [] operator = ">=" -> Ok(Bool(NumLe(right, left)))
          [] operator = "<=" -> Ok(Bool(NumLe(left, right)))
          [] OTHER -> Fail(Err("Unknown operator", operator))
    ELSE IF left.t = "string" /\ right.t = "string" THEN
        CASE operator = "=" -> Ok(Bool(left.s = right.s))
          [] operator = "<>" -> Ok(Bool(left.s # right.s))
          [] operator = ">" -> Ok(Bool(StrLt(right.s, left.s)))
          [] operator = "<" -> Ok(Bool(StrLt(left.s, right.s)))
          [] operator = ">=" -> Ok(Bool(~StrLt(left.s, right.s)))
          [] operator = "<=" -> Ok(Bool(~StrLt(right.s, left.s)))
          [] OTHER -> Fail(Err("Invalid binary expression: string operations only support comparisons", ""))
    ELSE IF operator \in {"=", "<>"} THEN
        LET result == ToStr(left) = ToStr(right)
        IN Ok(Bool(IF operator = "=" THEN result ELSE ~result))
    ELSE Fail(Err("Invalid binary expression: incompatible types for operator", operator))

\* Results of sub-evaluations are handed on as operator arguments: each is
\* evaluated once, as the await in the code does.

\* the UnaryExpression case, operand evaluated
EvalUnary(operator, r) ==
    IF ~r.ok THEN r
    ELSE CASE operator = "NOT" -> Ok(Bool(~Truthy(r.v)))
           [] operator = "+" -> Ok(ToNumber(r.v))
           [] operator = "-" -> Ok(NumNeg(ToNumber(r.v)))
           [] OTHER -> Fail(Err("Unknown unary operator", operator))

\* the BinaryExpression case: left is evaluated first, then right; the
\* first that throws ends the evaluation
EvalOperands(operator, l, r) ==
    IF ~l.ok THEN l
    ELSE IF ~r.ok THEN r
    ELSE EvalBinary(operator, l.v, r.v)

\* evaluateArrayAccess, the bounds test and the read of the slot
ArraySlot(a, index) ==
    IF IsNaN(index) \/ NumLt(index, Num(0)) \/ NumLe(Num(Len(a)), index)
    THEN Fail(Err("Array index out of bounds", ""))
    ELSE Ok(a[index.n + 1])

\* evaluateArrayAccess, from the evaluated index on
ArrayRead(a, r) == IF ~r.ok THEN r ELSE ArraySlot(a, NumFloor(ToNumber(r.v)))

\* evaluateExpression; evaluateArrayAccess is its ArrayAccess case.  The
\* isPrintContext flag only selects a second copy of the string
\* concatenation already done by the first "+" branch, so it is not carried.
\* ------------------------------------------------- built-in functions
\* the keys of builtinFunctions
BuiltinNames ==
    {"ABS", "SGN", "INT", "RND", "SIN", "COS", "TAN", "ATN", "ATN2", "SQR", "LOG",
     "EXP", "CINT", "CSNG", "CDBL", "CHR$", "LEFT$", "RIGHT$", "MID$", "SPACE$",
     "STRING$", "LTRIM$", "RTRIM$", "UCASE$", "LCASE$", "STR$", "VAL", "LEN", "ASC",
     "INSTR", "OCT$", "HEX$"}

\* the built-ins that take one number and are modelled here
NumericBuiltins ==
    {"ABS", "SGN", "INT", "SQR", "SIN", "COS", "TAN", "ATN", "LOG", "EXP", "CINT",
     "CSNG", "CDBL"}

\* a finite number the model does not compute: the function and its argument
Irrational(name, x) ==
    [t |-> "number", k |-> "other", n |-> 0, d |-> 1, of |-> <<name, x>>]

\* Math.ceil
NumCeil(x) == NumNeg(NumFloor(NumNeg(x)))

\* Math.abs(v), Math.sign(v), Math.floor(v): the argument goes through Number(v)
MathAbs(v) ==
    LET x == ToNumber(v)
    IN IF IsNaN(x) THEN NaN ELSE IF IsFin(x) THEN Rat(Abs(x.n), x.d) ELSE Infinity

MathSign(v) == LET x == ToNumber(v) IN IF IsNaN(x) THEN NaN ELSE Num(Sign(x))

MathFloor(v) == NumFloor(ToNumber(v))

\* Math.sin, Math.cos, Math.tan, Math.atan, Math.exp of Number(v)
MathFn(name, v) ==
    LET x == ToNumber(v)
    IN IF IsNaN(x) THEN NaN
       ELSE IF x = Num(0) THEN (IF name \in {"COS", "EXP"} THEN Num(1) ELSE Num(0))
       ELSE IF IsFin(x) THEN Irrational(name, x)
       ELSE IF name = "EXP" THEN (IF x.n > 0 THEN Infinity ELSE Num(0))
       ELSE IF name = "ATN" THEN Irrational(name, x)
       ELSE NaN

\* the integer square root of a perfect square, else -1
ExactRoot(n) == IF \E r \in 0 .. n : r * r = n THEN CHOOSE r \in 0 .. n : r * r = n ELSE -1

\* "SQR"
Sqr(v) ==
    IF TypeOf(v) # "number" THEN Fail(Err("Type mismatch", ""))
    ELSE IF NumLt(v, Num(0)) THEN Fail(Err("Square root of negative number", ""))
    ELSE IF ~IsFin(v) THEN Ok(v)
    ELSE IF ExactRoot(v.n) >= 0 /\ ExactRoot(v.d) >= 0
    THEN Ok(Rat(ExactRoot(v.n), ExactRoot(v.d)))
    ELSE Ok(Irrational("SQR", v))

\* "LOG": x <= 0 compares Number(x) with 0, x === 0 holds of the number 0 only
Log(v) ==
    LET x == ToNumber(v)
    IN IF NumLe(x, Num(0))
       THEN Fail(Err(IF v = Num(0) THEN "Cannot take logarithm of zero"
                     ELSE "Cannot take logarithm of negative number", ""))
       ELSE IF IsNaN(x) THEN Ok(NaN)
       ELSE IF x = Num(1) THEN Ok(Num(0))
       ELSE IF IsFin(x) THEN Ok(Irrational("LOG", x))
       ELSE Ok(Infinity)

\* "CINT"
Cint(v) ==
    IF TypeOf(v) # "number" THEN Fail(Err("Type mismatch", ""))
    ELSE IF IsNaN(v) THEN Ok(NaN)
    ELSE IF NumLt(Num(0), v) THEN Ok(NumFloor(NumAdd(v, Rat(1, 2))))
    ELSE Ok(NumCeil(NumSub(v, Rat(1, 2))))

\* "CSNG": toPrecision exists on numbers only; an integer of fewer than eight
\* digits is returned as it is
Csng(v) ==
    IF TypeOf(v) # "number" THEN Fail(Err("x.toPrecision is not a function", ""))
    ELSE IF IsNaN(v) \/ ~IsFin(v) THEN Ok(v)
    ELSE IF IsInteger(v) /\ Abs(v.n) < 10000000 THEN Ok(v)
    ELSE Ok(Irrational("CSNG", v))

\* Math.atan2 of Number(y) and Number(x)
Atan2(y, x) ==
    IF IsNaN(ToNumber(y)) \/ IsNaN(ToNumber(x)) THEN NaN
    ELSE IF ToNumber(y) = Num(0) /\ NumLt(Num(0), ToNumber(x)) THEN Num(0)
    ELSE Irrational("ATN2", <<ToNumber(y), ToNumber(x)>>)

\* func(...args) for the numeric built-ins
Builtin(name, args) ==
    CASE name = "ABS" -> Ok(MathAbs(args[1]))
      [] name = "SGN" -> Ok(MathSign(args[1]))
      [] name = "INT" -> Ok(MathFloor(args[1]))
      [] name \in {"SIN", "COS", "TAN", "ATN", "EXP"} -> Ok(MathFn(name, args[1]))
      [] name = "SQR" -> Sqr(args[1])
      [] name = "LOG" -> Log(args[1])
      [] name = "CINT" -> Cint(args[1])
      [] name = "CSNG" -> Csng(args[1])
      [] name = "CDBL" -> Ok(args[1])
      [] name = "ATN2" -> Ok(Atan2(args[1], args[2]))

\* case "FunctionCall" once the arguments are evaluated: r is Ok(the values)
\* or Fail(what an argument threw)
CallFunction(name, r) == IF ~r.ok THEN r ELSE Builtin(name, r.v)

\* The promises of evaluateExpression settle in microtask turns.  An async
\* function runs in the turn of its call up to its first await; "await p"
\* resumes it one turn after p settles; a throw or a return settles its own
\* promise in the turn it happens.  Times are counted in turns after the call.

\* const left = await evaluateExpression(left); const right = await
\* evaluateExpression(right), the operands settling after left and right
\* turns: the turn in which both values are there, or in which the await of
\* a rejected left operand throws
OperandsSettle(leftFails, left, right) ==
    IF leftFails THEN left + 1 ELSE left + right + 2

\* what the awaits of the two operands give: a rejection, a string among
\* the values, or other values
OperandsKind(left, right) ==
    IF ~left.ok \/ ~right.ok THEN "rejected"
    ELSE IF left.v.t = "string" \/ right.v.t = "string" THEN "string"
    ELSE "other"

\* the "+" case, the operands taking inContext turns with the isPrintContext
\* of the call and plain turns without: they are evaluated for the
\* concatenation; when neither is a string they are evaluated again, by
\* isStringContext (awaited) or by the print-context branch, and a third
\* time for the addition
PlusSettles(isPrintContext, kind, inContext, plain) ==
    IF kind # "other" THEN inContext
    ELSE IF isPrintContext THEN 2 * inContext + plain
    ELSE plain + (plain + 1) + plain

\* Promise.all rejects with the reason of the promise rejected first: its
\* reject handler runs one turn after a promise is rejected, and the handlers
\* of one turn run in the order of the arguments.  times[k] is the turn in
\* which the promise of argument k settles, rejected the rejected ones.
FirstRejected(times, rejected) ==
    CHOOSE k \in rejected :
        \A j \in rejected : times[k] < times[j] \/ (times[k] = times[j] /\ k <= j)

\* the turn of the last fulfilment
LastSettled(times) ==
    CHOOSE t \in {times[k] : k \in DOMAIN times} : \A k \in DOMAIN times : times[k] <= t

\* the turn in which Promise.all settles: one turn after the first
\* rejection, or one after the last fulfilment; at once when there is no
\* promise
AllSettle(times, rejected) ==
    IF times = <<>> THEN 0
    ELSE IF rejected # {} THEN times[FirstRejected(times, rejected)] + 1
    ELSE LastSettled(times) + 1

RECURSIVE evaluateExpression(_, _)
RECURSIVE evaluateArguments(_, _, _)
RECURSIVE settles(_, _, _)
evaluateArrayAccess(node, vars0) ==
    IF node.array \notin DOMAIN vars0
    THEN Fail(Err("Array is not defined", node.array))
    ELSE IF vars0[node.array].value.t # "array"
    THEN Fail(Err("Array is not defined", node.array))
    ELSE ArrayRead(vars0[node.array].value.a, evaluateExpression(node.index, vars0))

evaluateExpression(node, vars0) ==
    CASE node.type = "UnaryExpression" ->
            EvalUnary(node.operator, evaluateExpression(node.operand, vars0))
      [] node.type = "StringLiteral" -> Ok(Str(node.value))
      [] node.type = "NumberLiteral" -> Ok(node.value)
      [] node.type = "Variable" ->
            IF node.name \in DOMAIN vars0 THEN Ok(vars0[node.name].value)
            ELSE Fail(Err("Undefined variable", node.name))
      [] node.type = "BinaryExpression" ->
            EvalOperands(node.operator, evaluateExpression(node.left, vars0),
                         evaluateExpression(node.right, vars0))
      [] node.type = "ArrayAccess" -> evaluateArrayAccess(node, vars0)
      [] node.type = "FunctionCall" ->
            IF node.name \notin BuiltinNames THEN Fail(Err("Unknown function", node.name))
            ELSE CallFunction(node.name, evaluateArguments(node.arguments, vars0, FALSE))
      [] OTHER -> Fail(Err("Unknown expression type", node.type))

\* the number of turns after the call at which the promise of
\* evaluateExpression(node, isPrintContext) settles
settles(node, vars0, isPrintContext) ==
    CASE node.type = "UnaryExpression" -> settles(node.operand, vars0, FALSE) + 1
      [] node.type = "BinaryExpression" ->
            IF node.operator = "+"
            THEN PlusSettles(isPrintContext,
                     OperandsKind(evaluateExpression(node.left, vars0),
                                  evaluateExpression(node.right, vars0)),
                     OperandsSettle(~evaluateExpression(node.left, vars0).ok,
                                    settles(node.left, vars0, isPrintContext),
                                    settles(node.right, vars0, isPrintContext)),
                     OperandsSettle(~evaluateExpression(node.left, vars0).ok,
                                    settles(node.left, vars0, FALSE),
                                    settles(node.right, vars0, FALSE)))
            ELSE OperandsSettle(~evaluateExpression(node.left, vars0).ok,
                                settles(node.left, vars0, FALSE),
                                settles(node.right, vars0, FALSE))
      [] node.type = "ArrayAccess" ->
            IF node.array \notin DOMAIN vars0 THEN 1
            ELSE IF vars0[node.array].value.t # "array" THEN 1
            ELSE settles(node.index, vars0, FALSE) + 2
      [] node.type = "FunctionCall" ->
            IF node.name \notin BuiltinNames THEN 0
            ELSE AllSettle([k \in 1 .. Len(node.arguments) |->
                               settles(node.arguments[k], vars0, FALSE)],
                           {k \in 1 .. Len(node.arguments) :
                               ~evaluateExpression(node.arguments[k], vars0).ok}) + 1
      [] OTHER -> 0

\* await Promise.all(arguments.map(arg => this.evaluateExpression(arg,
\* isPrintContext))): the values in order, or the reason Promise.all
\* rejects with
evaluateArguments(arguments, vars0, isPrintContext) ==
    IF \A k \in 1 .. Len(arguments) : evaluateExpression(arguments[k], vars0).ok
    THEN Ok([k \in 1 .. Len(arguments) |-> evaluateExpression(arguments[k], vars0).v])
    ELSE evaluateExpression(
             arguments[FirstRejected(
                 [k \in 1 .. Len(arguments) |-> settles(arguments[k], vars0, isPrintContext)],
                 {k \in 1 .. Len(arguments) :
                     ~evaluateExpression(arguments[k], vars0).ok})],
             vars0)

\* ------------------------------------------------------------------ state
VARIABLES
    program,     \* the statement list parse(source) returns for the next execute call
    statements,  \* Interpreter.statements
    labels,      \* Interpreter.labels: label name -> statement index
    variables,   \* Interpreter.variables: name -> TypedVariable
    pc,          \* the counter i of the dispatch loop of execute (0-based)
    stack,       \* the active executeIfStatement/executeForLoop/executeWhileLoop calls
    output,      \* the arguments of the console.log calls made so far
    status,      \* "idle", "running", "done" (execute resolved), "failed" (execute rejected)
    error,       \* the object execute rejected with
    last,        \* history: the step taken last
    storedTo,    \* history: the <<array, index>> slots an array store has written
    tokens,      \* the token list handed to the expression parser
    ast,         \* what parseExpression returned for tokens
    sourceLines, \* the statements of a source text, one text each
    sourceText,  \* the source handed to execute
    calls        \* the number of execute calls made on the Interpreter instance

vars == <<program, statements, labels, variables, pc, stack, output, status, error,
          last, storedTo, tokens, ast, sourceLines, sourceText, calls>>

interpVars == <<program, statements, labels, variables, pc, stack, output, status,
                error, last, storedTo>>

parseVars == <<tokens, ast, sourceLines, sourceText>>

NoError == [message |-> "", detail |-> ""]

NoLast == [type |-> "none"]

\* -------------------------------------------------- the dispatch position
Top == stack[Len(stack)]

Running == status = "running"

\* a statement is about to be handed to executeStatement
AtStmt ==
    /\ Running
    /\ IF stack = <<>> THEN pc < Len(statements) ELSE Top.idx <= Len(Top.body)

\* the statement executeStatement is called with
Cur == IF stack = <<>> THEN statements[pc + 1] ELSE Top.body[Top.idx]

\* statement.expression, undefined in a PRINT of several expressions
expressionOf(statement) ==
    IF "expression" \in DOMAIN statement THEN statement.expression
    ELSE [type |-> "undefined"]

\* the body of the innermost active IF/FOR/WHILE has been run through
AtBodyEnd(kind) ==
    /\ Running
    /\ stack # <<>>
    /\ Top.kind = kind
    /\ Top.idx > Len(Top.body)

Pop(stk) == SubSeq(stk, 1, Len(stk) - 1)

\* executeStatement returned normally to the loop that called it: the
\* dispatch loop of execute (i++) or the for..of loop over a body
Proceed(stk) ==
    IF stk = <<>>
    THEN /\ stack' = <<>>
         /\ pc' = pc + 1
    ELSE /\ stack' = [stk EXCEPT ![Len(stk)].idx = @ + 1]
         /\ pc' = pc

\* a catch clause that recognises no thrown object as a signal
IsGotoSignalNever(e) == FALSE

\* the test of the catch clause in the dispatch loop:
\* e && typeof e === 'object' && 'isGoto' in e
IsGotoSignal(e) == "isGoto" \in DOMAIN e

\* where the dispatch loop continues after catching a signal:
\* i = targetIndex; continue  -- and the loop's i++ then runs
ResumeIndex(e) == e.targetIndex + 1

\* a dispatch loop that drops a thrown Error and goes on with the next
\* statement
RaiseAndGoOn(e) ==
    /\ stack' = <<>>
    /\ pc' = IF IsGotoSignal(e) THEN ResumeIndex(e) ELSE pc + 1
    /\ status' = status
    /\ error' = error

\* an object is thrown out of executeStatement: it unwinds every active
\* body loop and reaches the catch of the dispatch loop, which either
\* redirects i or rethrows to the outer catch of execute, which swallows a
\* signal and rethrows anything else to the caller
Raise(e) ==
    /\ stack' = <<>>
    /\ IF IsGotoSignal(e)
       THEN /\ pc' = ResumeIndex(e)
            /\ status' = status
            /\ error' = error
       ELSE /\ pc' = pc
            /\ status' = IF "isGoto" \in DOMAIN e THEN "done" ELSE "failed"
            /\ error' = IF "isGoto" \in DOMAIN e THEN error ELSE e

\* Array.prototype.indexOf compares object identity: the statement being
\* executed is in this.statements only if it is the top-level statement the
\* dispatch loop is at; a statement of a body is not, and indexOf gives -1
statementsIndexOf(stk, i) == IF stk = <<>> THEN i ELSE -1

\* the line console.log writes for one argument: a string as it is, a
\* number or a boolean as String(value)
consoleLog(value) == ToStr(value)

\* ------------------------------------------------------ statement handlers
\* an evaluateDim that declares over an existing variable
evaluateDimAgain(node, vars0) ==
    IF node.variable = "" THEN Fail(Err("Invalid DIM statement", ""))
    ELSE IF node.variableType \notin QBTypes THEN Fail(Err("Invalid type", ""))
    ELSE Ok(MapSet(vars0, node.variable,
                   TypedVariable(node.variable, node.variableType,
                                 getDefaultValue(node.variableType))))

\* evaluateDim: Ok(new environment) or Fail(error)
evaluateDim(node, vars0) ==
    IF node.variable = "" THEN Fail(Err("Invalid DIM statement", ""))
    ELSE IF node.variable \in DOMAIN vars0
    THEN Fail(Err("Variable already declared", node.variable))
    ELSE IF node.variableType \notin QBTypes THEN Fail(Err("Invalid type", ""))
    ELSE IF "size" \in DOMAIN node
    THEN IF node.size <= 0 THEN Fail(Err("Array size must be positive", ""))
         ELSE LET defaultValue == getDefaultValue(node.variableType)
                  array == [k \in 1..node.size |-> defaultValue]
              IN Ok(MapSet(vars0, node.variable,
                           TypedVariable(node.variable, node.variableType, Arr(array))))
    ELSE Ok(MapSet(vars0, node.variable,
                   TypedVariable(node.variable, node.variableType,
                                 getDefaultValue(node.variableType))))

\* a type test that lets every value through
LetTypeCheckNone(type, newValue) == ""

\* the type test of executeLetStatement on an existing variable:
\* "" when the value may be assigned, else the message thrown
LetTypeCheck(type, newValue) ==
    IF type = "STRING"
    THEN (IF TypeOf(newValue) # "string" THEN "Type mismatch" ELSE "")
    ELSE (IF TypeOf(newValue) # "number" THEN "Type mismatch" ELSE "")

\* executeLetStatement, existing variable: throw msg or assign
LetStore(vars0, variable, newValue, msg) ==
    IF msg # "" THEN Fail(Err(msg, ""))
    ELSE Ok(MapSet(vars0, variable.name, [variable EXCEPT !.value = newValue]))

\* executeLetStatement, existing variable, from the evaluated value on
LetExisting(vars0, variable, r) ==
    IF ~r.ok THEN r
    ELSE LetStore(vars0, variable, r.v, LetTypeCheck(variable.type, r.v))

\* executeLetStatement, new variable: newVar.value = value after evaluateDim
LetAutoSet(name, value, d) ==
    IF ~d.ok THEN d
    ELSE Ok(MapSet(d.v, name, [d.v[name] EXCEPT !.value = value]))

\* executeLetStatement, new variable, from the evaluated value on
LetAuto(vars0, name, r) ==
    IF ~r.ok THEN r
    ELSE LetAutoSet(name, r.v,
                    evaluateDim([type |-> "Dim", variable |-> name,
                                 variableType |-> IF TypeOf(r.v) = "string"
                                                  THEN "STRING" ELSE "SINGLE"], vars0))

\* executeLetStatement with statement.variable set
LetVariable(statement, vars0) ==
    IF statement.variable \in DOMAIN vars0
    THEN LetExisting(vars0, vars0[statement.variable],
                     evaluateExpression(statement.value, vars0))
    ELSE LetAuto(vars0, statement.variable, evaluateExpression(statement.value, vars0))

\* the bounds test of evaluateAssignment
StoreIndexOk(indexValue, length) ==
    /\ IsInteger(indexValue)
    /\ ~NumLt(indexValue, Num(0))
    /\ ~NumLe(Num(length), indexValue)

\* a store that validates the type before it tests the bounds
StoreSlotTypeFirst(vars0, variable, indexValue, value, msg) ==
    IF msg # "" THEN Fail(Err(msg, ""))
    ELSE IF ~StoreIndexOk(indexValue, Len(variable.value.a))
    THEN Fail(Err("Array index out of bounds", ""))
    ELSE Ok([vars |-> MapSet(vars0, variable.name,
                             [variable EXCEPT !.value.a[indexValue.n + 1] = value]),
             slot |-> <<variable.name, indexValue.n>>])

\* evaluateAssignment: the bounds test, then validateType (msg is what it
\* throws, "" if nothing), then the store
StoreSlot(vars0, variable, indexValue, value, msg) ==
    IF ~StoreIndexOk(indexValue, Len(variable.value.a))
    THEN Fail(Err("Array index out of bounds", ""))
    ELSE IF msg # "" THEN Fail(Err(msg, ""))
    ELSE Ok([vars |-> MapSet(vars0, variable.name,
                             [variable EXCEPT !.value.a[indexValue.n + 1] = value]),
             slot |-> <<variable.name, indexValue.n>>])

\* evaluateAssignment: the index is evaluated, then the value, then the checks
StoreEvaluated(vars0, variable, ri, rv) ==
    IF ~ri.ok THEN ri
    ELSE IF ~rv.ok THEN rv
    ELSE StoreSlot(vars0, variable, ToNumber(ri.v), rv.v,
                   validateType(variable.type, rv.v))

\* evaluateAssignment, array branch (the only one executeLetStatement reaches):
\* Ok([vars, slot]) or Fail(error)
evaluateAssignment(statement, vars0) ==
    IF statement.arrayAccess.array \notin DOMAIN vars0
    THEN Fail(Err("Array is not defined", statement.arrayAccess.array))
    ELSE IF vars0[statement.arrayAccess.array].value.t # "array"
    THEN Fail(Err("Array is not defined", statement.arrayAccess.array))
    ELSE StoreEvaluated(vars0, vars0[statement.arrayAccess.array],
                        evaluateExpression(statement.arrayAccess.index, vars0),
                        evaluateExpression(statement.expression, vars0))

\* a continuation test that stops one short of the end value
continueLoopStrict(i, endValue, stepValue) ==
    IF NumLt(Num(0), stepValue) THEN NumLt(i, endValue) ELSE NumLt(endValue, i)

\* a continuation test that takes every loop as an ascending one
continueLoopAscending(i, endValue, stepValue) == NumLe(i, endValue)

\* the continuation test of executeForLoop
continueLoop(i, endValue, stepValue) ==
    IF NumLt(Num(0), stepValue) THEN NumLe(i, endValue) ELSE NumLe(endValue, i)

\* the loop variable as executeForLoop sets it
ForVariable(name, value) == TypedVariable(name, "SINGLE", value)

\* the first-pass label table of execute
RECURSIVE CollectLabels(_, _, _)
CollectLabels(stmts, i, acc) ==
    IF i >= Len(stmts) THEN acc
    ELSE CollectLabels(stmts, i + 1,
                       IF stmts[i + 1].type = "Label"
                       THEN MapSet(acc, stmts[i + 1].name, i) ELSE acc)

\* ---------------------------------------------------------------- actions
\* what a step records about itself
Step(type) == [type |-> type, node |-> Cur, at |-> pc, depth |-> Len(stack)]

\* a reset() that clears nothing
resetNothing == [variables |-> variables, labels |-> labels, statements |-> statements]

\* reset(): the fields after variables.clear(), labels.clear(), statements = []
reset == [variables |-> NoVars, labels |-> NoVars, statements |-> <<>>]

\* execute after its reset step left the fields as in cleared and
\* parse(source) returned stmts: the label pre-pass, and the dispatch loop
\* about to start at i = 0
Run(cleared, stmts, retain) ==
    /\ statements' = stmts
    /\ labels' = CollectLabels(stmts, 0, cleared.labels)
    /\ variables' = cleared.variables
    /\ pc' = 0
    /\ stack' = <<>>
    /\ status' = "running"
    /\ error' = NoError
    /\ storedTo' = {}
    /\ calls' = calls + 1
    /\ last' = [type |-> "Execute", retain |-> retain, had |-> variables,
                 hadLabels |-> labels]

\* execute(source), the first call on the instance
Execute ==
    /\ status = "idle"
    /\ Run(reset, program, FALSE)
    /\ UNCHANGED <<program, output, parseVars>>

\* a handler that only changes the environment returned r: Ok(environment),
\* or Fail(what it threw)
SetVariables(r) ==
    IF r.ok
    THEN /\ variables' = r.v
         /\ Proceed(stack)
         /\ UNCHANGED <<status, error>>
    ELSE /\ Raise(r.e)
         /\ UNCHANGED variables

\* case "Dim": evaluateDim
ExecDim ==
    /\ AtStmt
    /\ Cur.type = "Dim"
    /\ SetVariables(evaluateDim(Cur, variables))
    /\ last' = Step("Dim")
    /\ UNCHANGED <<program, statements, labels, output, storedTo, parseVars, calls>>

\* a PRINT that writes booleans the BASIC way, -1 and 0
PrintArgBasic(value) ==
    IF TypeOf(value) = "number" THEN Str(ToStr(value))
    ELSE IF TypeOf(value) = "boolean"
    THEN (IF value.b THEN Str(<<"-", "1">>) ELSE Str(<<"0">>))
    ELSE value

\* what executePrintStatement passes to console.log for a single expression
PrintArg(value) == IF TypeOf(value) = "number" THEN Str(ToStr(value)) ELSE value

\* executePrintStatement, from the evaluated expression on
PrintValue(r) ==
    IF r.ok
    THEN /\ output' = Append(output, PrintArg(r.v))
         /\ Proceed(stack)
         /\ UNCHANGED <<status, error>>
    ELSE /\ Raise(r.e)
         /\ UNCHANGED output

\* values.join("")
RECURSIVE JoinValues(_)
JoinValues(values) ==
    IF values = <<>> THEN <<>> ELSE ToStr(values[1]) \o JoinValues(Tail(values))

\* executePrintStatement with an expression list, from Promise.all on
PrintJoined(r) ==
    IF r.ok
    THEN /\ output' = Append(output, Str(JoinValues(r.v)))
         /\ Proceed(stack)
         /\ UNCHANGED <<status, error>>
    ELSE /\ Raise(r.e)
         /\ UNCHANGED output

\* case "Print": executePrintStatement
ExecPrint ==
    /\ AtStmt
    /\ Cur.type = "Print"
    /\ Len(output) < MaxOutput
    /\ IF "expressions" \in DOMAIN Cur
       THEN PrintJoined(evaluateArguments(Cur.expressions, variables, TRUE))
       ELSE IF Cur.expression.type = "EmptyExpression"
       THEN PrintValue(Ok(Str(<<>>)))
       ELSE PrintValue(evaluateExpression(Cur.expression, variables))
    /\ last' = Step("Print")
    /\ UNCHANGED <<program, statements, labels, variables, storedTo, parseVars, calls>>

\* evaluateAssignment returned r: Ok([vars, slot]) or Fail(what it threw)
StoreResult(r) ==
    IF r.ok
    THEN /\ variables' = r.v.vars
         /\ storedTo' = storedTo \cup {r.v.slot}
         /\ Proceed(stack)
         /\ UNCHANGED <<status, error>>
    ELSE /\ Raise(r.e)
         /\ UNCHANGED <<variables, storedTo>>

\* case "Let": executeLetStatement
ExecLet ==
    /\ AtStmt
    /\ Cur.type = "Let"
    /\ IF "variable" \in DOMAIN Cur
       THEN /\ SetVariables(LetVariable(Cur, variables))
            /\ UNCHANGED storedTo
       ELSE StoreResult(evaluateAssignment(Cur, variables))
    /\ last' = Step("Let")
    /\ UNCHANGED <<program, statements, labels, output, parseVars, calls>>

\* the lines the line reader may deliver to INPUT
InputLines == {<<"7">>, <<"h", "i">>}

\* what Deno.stdin.read delivers: a line of text, or nothing (end of input)
Reads == {[eof |-> FALSE, text |-> l] : l \in InputLines} \cup {[eof |-> TRUE, text |-> <<>>]}

\* variable.value = isNaN(Number(value)) ? value : Number(value)
InputValue(value, n) == IF IsNaN(n) THEN Str(value) ELSE n

\* executeInputStatement after the auto-declaration d
InputRead(name, read, d) ==
    IF ~d.ok THEN d
    ELSE IF read.eof THEN d
    ELSE Ok(MapSet(d.v, name,
                   [d.v[name] EXCEPT !.value = InputValue(Trim(read.text),
                                                          StrToNum(Trim(read.text)))]))

\* case "Input": executeInputStatement
ExecInput ==
    /\ AtStmt
    /\ Cur.type = "Input"
    /\ \E read \in Reads :
        SetVariables(InputRead(Cur.variable, read,
            IF Cur.variable \in DOMAIN variables THEN Ok(variables)
            ELSE evaluateDim([type |-> "Dim", variable |-> Cur.variable,
                              variableType |-> "SINGLE"], variables)))
    /\ last' = Step("Input")
    /\ UNCHANGED <<program, statements, labels, output, storedTo, parseVars, calls>>

\* case "Cls": console.clear()
ExecCls ==
    /\ AtStmt
    /\ Cur.type = "Cls"
    /\ Proceed(stack)
    /\ last' = Step("Cls")
    /\ UNCHANGED <<program, statements, labels, variables, output, status, error,
                   storedTo, parseVars, calls>>

\* the branch executeIfStatement runs for a condition value
IfBranch(statement, condition) ==
    IF Truthy(condition) THEN statement.thenBranch
    ELSE IF "elseBranch" \in DOMAIN statement THEN statement.elseBranch
    ELSE <<>>

\* executeIfStatement, from the evaluated condition on
IfEnter(statement, r) ==
    IF ~r.ok
    THEN Raise(r.e)
    ELSE /\ stack' = Append(stack, [kind |-> "If", idx |-> 1,
                                    body |-> IfBranch(statement, r.v)])
         /\ UNCHANGED <<pc, status, error>>

\* case "If": executeIfStatement up to the first statement of the branch
ExecIf ==
    /\ AtStmt
    /\ Cur.type = "If"
    /\ IfEnter(Cur, evaluateExpression(Cur.condition, variables))
    /\ last' = Step("If")
    /\ UNCHANGED <<program, statements, labels, variables, output, storedTo, parseVars, calls>>

\* executeIfStatement returns after the last statement of the branch
EndIf ==
    /\ AtBodyEnd("If")
    /\ Proceed(Pop(stack))
    /\ last' = [type |-> "EndIf"]
    /\ UNCHANGED <<program, statements, labels, variables, output, status, error,
                   storedTo, parseVars, calls>>

\* what the loop records when it ends without a throw
ForDone(startValue, endValue, stepValue, count) ==
    [type |-> "ForDone", startValue |-> startValue, endValue |-> endValue,
     stepValue |-> stepValue, count |-> count]

\* executeForLoop from the numeric start, end and step on: the loop variable
\* is set, then the first continuation test
ForStart(statement, startValue, endValue, stepValue) ==
    /\ variables' = MapSet(variables, statement.variable,
                           ForVariable(statement.variable, startValue))
    /\ UNCHANGED <<status, error>>
    /\ IF continueLoop(startValue, endValue, stepValue)
       THEN /\ stack' = Append(stack,
                  [kind |-> "For", idx |-> 1, body |-> statement.body,
                   variable |-> statement.variable, i |-> startValue,
                   endValue |-> endValue, stepValue |-> stepValue,
                   startValue |-> startValue, count |-> 1])
            /\ pc' = pc
            /\ last' = Step("For")
       ELSE /\ Proceed(stack)
            /\ last' = ForDone(startValue, endValue, stepValue, 0)

\* executeForLoop from the evaluated start, end and step on
ForEnter(statement, rs, re, rt) ==
    IF ~rs.ok THEN Raise(rs.e) /\ UNCHANGED variables /\ last' = Step("For")
    ELSE IF ~re.ok THEN Raise(re.e) /\ UNCHANGED variables /\ last' = Step("For")
    ELSE IF ~rt.ok THEN Raise(rt.e) /\ UNCHANGED variables /\ last' = Step("For")
    ELSE IF TypeOf(rs.v) # "number" \/ TypeOf(re.v) # "number" \/ TypeOf(rt.v) # "number"
    THEN /\ Raise(Err("FOR loop requires numeric values", ""))
         /\ UNCHANGED variables
         /\ last' = Step("For")
    ELSE ForStart(statement, rs.v, re.v, rt.v)

\* case "For": executeForLoop up to the first statement of the body
ExecFor ==
    /\ AtStmt
    /\ Cur.type = "For"
    /\ ForEnter(Cur, evaluateExpression(Cur.start, variables),
                evaluateExpression(Cur.end, variables),
                IF "step" \in DOMAIN Cur THEN evaluateExpression(Cur.step, variables)
                ELSE Ok(Num(1)))
    /\ UNCHANGED <<program, statements, labels, output, storedTo, parseVars, calls>>

\* the iterations begun so far, counted up to MaxIter: a loop whose i no
\* longer advances is followed on, its iterations beyond MaxIter uncounted
Counted(count) == IF count < MaxIter THEN count + 1 ELSE count

\* a loop that continues from the value the body left in the loop variable
ForIterateFromVariable(f, i) ==
    IF continueLoop(NumAdd(variables[f.variable].value, f.stepValue),
                    f.endValue, f.stepValue)
    THEN /\ variables' = MapSet(variables, f.variable,
                ForVariable(f.variable, NumAdd(variables[f.variable].value, f.stepValue)))
         /\ stack' = [stack EXCEPT ![Len(stack)].i =
                                       NumAdd(variables[f.variable].value, f.stepValue),
                                   ![Len(stack)].idx = 1,
                                   ![Len(stack)].count = Counted(@)]
         /\ pc' = pc
         /\ last' = [type |-> "ForNext"]
    ELSE /\ variables' = variables
         /\ Proceed(Pop(stack))
         /\ last' = ForDone(f.startValue, f.endValue, f.stepValue, f.count)

\* executeForLoop with i advanced: the continuation test, then the loop
\* variable is set for the next iteration, or the loop ends
ForIterate(f, i) ==
    IF continueLoop(i, f.endValue, f.stepValue)
    THEN /\ variables' = MapSet(variables, f.variable, ForVariable(f.variable, i))
         /\ stack' = [stack EXCEPT ![Len(stack)].i = i,
                                   ![Len(stack)].idx = 1,
                                   ![Len(stack)].count = Counted(@)]
         /\ pc' = pc
         /\ last' = [type |-> "ForNext"]
    ELSE /\ variables' = variables
         /\ Proceed(Pop(stack))
         /\ last' = ForDone(f.startValue, f.endValue, f.stepValue, f.count)

\* executeForLoop after the last statement of the body: i += stepValue.
\* A loop whose i advances is followed for MaxIter iterations, more than
\* any loop that ends here takes; one whose i stays is followed without end.
ForNext ==
    /\ AtBodyEnd("For")
    /\ Top.count < MaxIter \/ NumAdd(Top.i, Top.stepValue) = Top.i
    /\ ForIterate(Top, NumAdd(Top.i, Top.stepValue))
    /\ UNCHANGED <<program, statements, labels, output, status, error, storedTo, parseVars, calls>>

\* executeWhileLoop from the evaluated condition on; stk is the stack the
\* loop was called on
WhileTest(stk, statement, r) ==
    IF ~r.ok THEN Raise(r.e)
    ELSE IF Truthy(r.v)
    THEN /\ stack' = Append(stk, [kind |-> "While", idx |-> 1, body |-> statement.body,
                                  condition |-> statement.condition])
         /\ UNCHANGED <<pc, status, error>>
    ELSE /\ Proceed(stk)
         /\ UNCHANGED <<status, error>>

\* case "While": executeWhileLoop up to the first statement of the body
ExecWhile ==
    /\ AtStmt
    /\ Cur.type = "While"
    /\ WhileTest(stack, Cur, evaluateExpression(Cur.condition, variables))
    /\ last' = Step("While")
    /\ UNCHANGED <<program, statements, labels, variables, output, storedTo, parseVars, calls>>

\* executeWhileLoop after the last statement of the body: the condition again
WhileNext ==
    /\ AtBodyEnd("While")
    /\ WhileTest(Pop(stack), Top, evaluateExpression(Top.condition, variables))
    /\ last' = [type |-> "WhileNext"]
    /\ UNCHANGED <<program, statements, labels, variables, output, storedTo, parseVars, calls>>

\* case "Label": the label is (re)registered under indexOf(statement)
ExecLabel ==
    /\ AtStmt
    /\ Cur.type = "Label"
    /\ labels' = MapSet(labels, Cur.name, statementsIndexOf(stack, pc))
    /\ Proceed(stack)
    /\ last' = Step("Label")
    /\ UNCHANGED <<program, statements, variables, output, status, error, storedTo,
                   parseVars, calls>>

\* executeGoto: what it throws
executeGoto(statement, labels0) ==
    IF statement.label \notin DOMAIN labels0
    THEN Err("Label not found", statement.label)
    ELSE GotoSignal(labels0[statement.label])

\* case "Goto": executeGoto and the catch of the dispatch loop
ExecGoto ==
    /\ AtStmt
    /\ Cur.type = "Goto"
    /\ Raise(executeGoto(Cur, labels))
    /\ last' = Step("Goto")
    /\ UNCHANGED <<program, statements, labels, variables, output, storedTo, parseVars, calls>>

\* the dispatch loop ends: i reached statements.length, execute resolves
Finish ==
    /\ Running
    /\ stack = <<>>
    /\ pc >= Len(statements)
    /\ status' = "done"
    /\ last' = [type |-> "Finish"]
    /\ UNCHANGED <<program, statements, labels, variables, pc, stack, output, error,
                   storedTo, parseVars, calls>>

\* ------------------------------------------ AST nodes (lib/parser.ts)
NumLit(n) == [type |-> "NumberLiteral", value |-> Num(n)]

StrLit(s) == [type |-> "StringLiteral", value |-> s]

Var(name) == [type |-> "Variable", name |-> name]

Bin(operator, left, right) ==
    [type |-> "BinaryExpression", operator |-> operator, left |-> left, right |-> right]

Un(operator, operand) == [type |-> "UnaryExpression", operator |-> operator, operand |-> operand]

ArrAcc(array, index) == [type |-> "ArrayAccess", array |-> array, index |-> index]

Call(name, arguments) == [type |-> "FunctionCall", name |-> name, arguments |-> arguments]

PrintS(expression) == [type |-> "Print", expression |-> expression]

LetS(variable, value) == [type |-> "Let", variable |-> variable, value |-> value]

LetArrS(array, index, expression) ==
    [type |-> "Let", arrayAccess |-> ArrAcc(array, index), expression |-> expression]

InputS(variable) == [type |-> "Input", variable |-> variable]

ClsS == [type |-> "Cls"]

IfS(condition, thenBranch) ==
    [type |-> "If", condition |-> condition, thenBranch |-> thenBranch]

IfElseS(condition, thenBranch, elseBranch) ==
    [type |-> "If", condition |-> condition, thenBranch |-> thenBranch,
     elseBranch |-> elseBranch]

DimS(variable, variableType) ==
    [type |-> "Dim", variable |-> variable, variableType |-> variableType]

DimArrS(variable, variableType, size) ==
    [type |-> "Dim", variable |-> variable, variableType |-> variableType, size |-> size]

ForS(variable, start, end, body) ==
    [type |-> "For", variable |-> variable, start |-> start, end |-> end, body |-> body]

ForStepS(variable, start, end, step, body) ==
    [type |-> "For", variable |-> variable, start |-> start, end |-> end, step |-> step,
     body |-> body]

WhileS(condition, body) == [type |-> "While", condition |-> condition, body |-> body]

GotoS(label) == [type |-> "Goto", label |-> label]

LabelS(name) == [type |-> "Label", name |-> name]

\* ------------------------------------- expression parser (lib/parser.ts)
\* A token is [type, value].  The value of a NUMBER or STRING token is its
\* lexeme, character by character; every other value is the text itself.
Token(type, value) == [type |-> type, value |-> value]

\* the text of a character sequence
RECURSIVE Text(_)
Text(chars) == IF chars = <<>> THEN "" ELSE chars[1] \o Text(Tail(chars))

\* token.value as it appears in a message
ValueText(token) ==
    IF token.type \in {"NUMBER", "STRING"} THEN Text(token.value) ELSE token.value

\* tokens[index] of a 0-based index: a token, or undefined past the end
HasToken(toks, index) == index < Len(toks)

\* isTokenType(tokens[index], type); reading past the end is reported by
\* the callers as the TypeError the property access throws
isTokenType(toks, index, type) == toks[index + 1].type = type

TypeErrorUndefined == Err("TypeError: Cannot read properties of undefined", "type")

\* a parse result: the node built and the index after it
Parsed(node, index) == Ok([node |-> node, index |-> index])

\* a table with the additive and multiplicative levels exchanged
getPrecedenceSwapped(op) ==
    CASE op = "OR" -> 1
      [] op = "AND" -> 2
      [] op = "NOT" -> 3
      [] op \in {"=", "<>", "<", ">", "<=", ">="} -> 4
      [] op \in {"+", "-"} -> 6
      [] op \in {"*", "/"} -> 5
      [] OTHER -> 0

\* the precedence table the parser looks operators up in
getPrecedence(op) ==
    CASE op = "OR" -> 1
      [] op = "AND" -> 2
      [] op = "NOT" -> 3
      [] op \in {"=", "<>", "<", ">", "<=", ">="} -> 4
      [] op \in {"+", "-"} -> 5
      [] op \in {"*", "/"} -> 6
      [] OTHER -> 0

\* eat(type) after the node r was parsed: r with the index advanced
eat(toks, type, r) ==
    IF ~r.ok THEN r
    ELSE IF ~HasToken(toks, r.v.index) THEN Fail(Err("Unexpected end of input", ""))
    ELSE IF isTokenType(toks, r.v.index, "EOF") THEN Fail(Err("Unexpected end of input", ""))
    ELSE IF ~isTokenType(toks, r.v.index, type)
    THEN Fail(Err("Unexpected token", ValueText(toks[r.v.index + 1])))
    ELSE Parsed(r.v.node, r.v.index + 1)

\* the precedence the right operand of operator is parsed at
rightPrecedence(operator) ==
    IF operator = "AND" \/ operator = "OR"
    THEN getPrecedence(operator) + 1 ELSE getPrecedence(operator)

\* left = { type: "UnaryExpression", operator, operand }
MakeUnary(operator, r) ==
    IF ~r.ok THEN r ELSE Parsed(Un(operator, r.v.node), r.v.index)

\* left = { type: "BinaryExpression", operator, left, right }
MakeBinary(operator, left, r) ==
    IF ~r.ok THEN r ELSE Parsed(Bin(operator, left, r.v.node), r.v.index)

\* parsePrimary on a sign: a NumberLiteral operand is folded, anything else
\* becomes a UnaryExpression
MakeSigned(sign, r) ==
    IF ~r.ok THEN r
    ELSE IF r.v.node.type = "NumberLiteral"
    THEN Parsed([type |-> "NumberLiteral",
                 value |-> IF sign = "-" THEN NumNeg(r.v.node.value) ELSE r.v.node.value],
                r.v.index)
    ELSE Parsed(Un(sign, r.v.node), r.v.index)

\* parsePrimary on an identifier followed by "(": the node after eat(")")
MakeArrayAccess(name, r) ==
    IF ~r.ok THEN r ELSE Parsed(ArrAcc(name, r.v.node), r.v.index)

\* parsePrimary on a function name: the node once the arguments are parsed
MakeFunctionCall(name, r) ==
    IF ~r.ok THEN r
    ELSE Parsed([type |-> "FunctionCall", name |-> name, arguments |-> r.v.node],
                r.v.index)

\* args.push(parseExpression(0))
PushArg(args, r) == IF ~r.ok THEN r ELSE Parsed(Append(args, r.v.node), r.v.index)

RECURSIVE parseExpression(_, _, _)
RECURSIVE parseOperators(_, _, _)
RECURSIVE parsePrimary(_, _)
RECURSIVE parseArguments(_, _)

\* parsePrimary, function call: the comma loop after an argument, then the
\* closing parenthesis; r holds the argument list so far
parseArguments(toks, r) ==
    IF ~r.ok THEN r
    ELSE IF HasToken(toks, r.v.index) /\ isTokenType(toks, r.v.index, "COMMA")
    THEN IF ~HasToken(toks, r.v.index + 1) THEN Fail(TypeErrorUndefined)
         ELSE IF isTokenType(toks, r.v.index + 1, "RIGHT_PAREN")
         THEN Fail(Err("Expected argument after comma", ""))
         ELSE parseArguments(toks, PushArg(r.v.node,
                                           parseExpression(toks, r.v.index + 1, 0)))
    ELSE IF ~HasToken(toks, r.v.index) THEN Fail(TypeErrorUndefined)
    ELSE IF ~isTokenType(toks, r.v.index, "RIGHT_PAREN") THEN Fail(Err("Expected )", ""))
    ELSE Parsed(r.v.node, r.v.index + 1)

parsePrimary(toks, index) ==
    IF ~HasToken(toks, index) THEN Fail(TypeErrorUndefined)
    ELSE IF isTokenType(toks, index, "STRING_FUNCTION") \/ isTokenType(toks, index, "FUNCTION")
    THEN IF ~HasToken(toks, index + 1) THEN Fail(TypeErrorUndefined)
         ELSE IF ~isTokenType(toks, index + 1, "LEFT_PAREN")
         THEN Fail(Err("Expected ( after function name", ""))
         ELSE IF ~HasToken(toks, index + 2) THEN Fail(TypeErrorUndefined)
         ELSE IF isTokenType(toks, index + 2, "RIGHT_PAREN")
         THEN MakeFunctionCall(toks[index + 1].value, Parsed(<<>>, index + 3))
         ELSE MakeFunctionCall(toks[index + 1].value,
                  parseArguments(toks, PushArg(<<>>, parseExpression(toks, index + 2, 0))))
    ELSE IF isTokenType(toks, index, "IDENTIFIER")
    THEN IF ~HasToken(toks, index + 1) THEN Fail(TypeErrorUndefined)
         ELSE IF isTokenType(toks, index + 1, "LEFT_PAREN")
         THEN MakeArrayAccess(toks[index + 1].value,
                              eat(toks, "RIGHT_PAREN", parseExpression(toks, index + 2, 0)))
         ELSE Parsed(Var(toks[index + 1].value), index + 1)
    ELSE IF isTokenType(toks, index, "OPERATOR") /\ toks[index + 1].value \in {"-", "+"}
    THEN MakeSigned(toks[index + 1].value, parsePrimary(toks, index + 1))
    ELSE IF isTokenType(toks, index, "STRING")
    THEN Parsed(StrLit(SubSeq(toks[index + 1].value, 2, Len(toks[index + 1].value) - 1)),
                index + 1)
    ELSE IF isTokenType(toks, index, "NUMBER")
    THEN Parsed([type |-> "NumberLiteral", value |-> StrToNum(toks[index + 1].value)],
                index + 1)
    ELSE IF isTokenType(toks, index, "LEFT_PAREN")
    THEN eat(toks, "RIGHT_PAREN", parseExpression(toks, index + 1, 0))
    ELSE Fail(Err("Unexpected token", ValueText(toks[index + 1])))

\* the while loop of parseExpression; r holds left and the index after it
parseOperators(toks, precedence, r) ==
    IF ~r.ok THEN r
    ELSE IF /\ HasToken(toks, r.v.index)
            /\ isTokenType(toks, r.v.index, "OPERATOR")
            /\ getPrecedence(toks[r.v.index + 1].value) >= precedence
    THEN parseOperators(toks, precedence,
             MakeBinary(toks[r.v.index + 1].value, r.v.node,
                        parseExpression(toks, r.v.index + 1,
                                        rightPrecedence(toks[r.v.index + 1].value))))
    ELSE r

parseExpression(toks, index, precedence) ==
    IF ~HasToken(toks, index) THEN Fail(TypeErrorUndefined)
    ELSE IF isTokenType(toks, index, "NOT_OPERATOR")
    THEN parseOperators(toks, precedence,
             MakeUnary("NOT", parseExpression(toks, index + 1, getPrecedence("NOT"))))
    ELSE parseOperators(toks, precedence, parsePrimary(toks, index))

\* ------------------------------------------------ lib/tokenizer.ts
\* A source text is a sequence of characters, source[i + 1] being the
\* character at the 0-based index i.
DigitChars == {"0", "1", "2", "3", "4", "5", "6", "7", "8", "9"}

LowerLetters ==
    <<"a", "b", "c", "d", "e", "f", "g", "h", "i", "j", "k", "l", "m", "n", "o", "p", "q",
      "r", "s", "t", "u", "v", "w", "x", "y", "z">>

UpperLetters ==
    <<"A", "B", "C", "D", "E", "F", "G", "H", "I", "J", "K", "L", "M", "N", "O", "P", "Q",
      "R", "S", "T", "U", "V", "W", "X", "Y", "Z">>

\* /[A-Za-z_]/ and /[A-Za-z0-9_]/
LetterChars == {LowerLetters[k] : k \in 1 .. 26} \cup {UpperLetters[k] : k \in 1 .. 26} \cup {"_"}

WordChars == LetterChars \cup DigitChars

\* String.prototype.toUpperCase on one character
UpperChar(c) ==
    IF \E k \in 1 .. 26 : LowerLetters[k] = c
    THEN UpperLetters[CHOOSE k \in 1 .. 26 : LowerLetters[k] = c]
    ELSE c

\* word.toUpperCase() as a string
RECURSIVE UpperWord(_)
UpperWord(chars) ==
    IF chars = <<>> THEN "" ELSE UpperChar(chars[1]) \o UpperWord(Tail(chars))

\* specialTokens: the token type of a reserved word, "" for any other word
specialTokens(word) ==
    CASE word \in {"PRINT", "LET", "INPUT", "CLS", "RETURN", "GOSUB"} -> "KEYWORD"
      [] word = "IF" -> "IF_KEYWORD"
      [] word = "THEN" -> "THEN_KEYWORD"
      [] word = "ELSE" -> "ELSE_KEYWORD"
      [] word = "FOR" -> "FOR_KEYWORD"
      [] word = "TO" -> "TO_KEYWORD"
      [] word = "STEP" -> "STEP_KEYWORD"
      [] word = "NEXT" -> "NEXT_KEYWORD"
      [] word = "WHILE" -> "WHILE_KEYWORD"
      [] word = "WEND" -> "WEND_KEYWORD"
      [] word = "DIM" -> "DIM_KEYWORD"
      [] word = "GOTO" -> "GOTO_KEYWORD"
      [] word = "AS" -> "AS"
      [] word \in {"AND", "OR"} -> "OPERATOR"
      [] word = "NOT" -> "NOT_OPERATOR"
      [] word = "END" -> "END_KEYWORD"
      [] word \in {"SKIP", "ESCAPE"} -> "IDENTIFIER"
      [] OTHER -> ""

operators == {"+", "-", "*", "/", "=", "<", ">", "<=", ">=", "<>", "AND", "OR"}

functions ==
    {"ABS", "SGN", "INT", "RND", "SQR", "SIN", "COS", "TAN", "ASC", "ATN", "LOG", "EXP",
     "ATN2", "CINT", "CSNG", "CDBL", "LEN", "LEFT$", "RIGHT$", "MID$", "CHR$", "STR$",
     "INSTR$", "LEN$"}

stringFunctions == {"LEFT$", "RIGHT$", "MID$", "CHR$", "STR$", "INSTR$", "LEN$"}

typeKeywords == {"INTEGER", "SINGLE", "DOUBLE", "STRING"}

\* source[i], "" past the end
CharAt(source, i) == IF i < Len(source) THEN source[i + 1] ELSE ""

\* the index after the longest run of characters of the class from i on
RECURSIVE ScanWhile(_, _, _)
ScanWhile(source, i, class) ==
    IF i < Len(source) /\ source[i + 1] \in class THEN ScanWhile(source, i + 1, class) ELSE i

\* the index of the next character c from i on, the length if there is none
RECURSIVE ScanTo(_, _, _)
ScanTo(source, i, c) ==
    IF i < Len(source) /\ source[i + 1] # c THEN ScanTo(source, i + 1, c) ELSE i

\* source.slice(from, to)
Slice(source, from, to) == SubSeq(source, from + 1, to)

\* a scanned token and the index after it
Scanned(token, next) == Ok([token |-> token, next |-> next])

\* the string branch: up to the closing quote, which is taken if there is one
ScanString(source, i) ==
    LET close == ScanTo(source, i + 1, "\"")
        next == IF close < Len(source) THEN close + 1 ELSE close
    IN Scanned(Token("STRING", Slice(source, i, next)), next)

\* the number branch after the fraction: the exponent, then the check that
\* no second point follows; start is where the number began
ScanExponent(source, start, i) ==
    IF CharAt(source, i) \in {"e", "E"}
    THEN LET j == IF CharAt(source, i + 1) \in {"+", "-"} THEN i + 2 ELSE i + 1
         IN IF CharAt(source, j) \notin DigitChars THEN Fail(Err("Invalid number format", ""))
            ELSE IF CharAt(source, ScanWhile(source, j, DigitChars)) = "."
            THEN Fail(Err("Invalid number format", ""))
            ELSE Scanned(Token("NUMBER", Slice(source, start, ScanWhile(source, j, DigitChars))),
                         ScanWhile(source, j, DigitChars))
    ELSE IF CharAt(source, i) = "." THEN Fail(Err("Invalid number format", ""))
    ELSE Scanned(Token("NUMBER", Slice(source, start, i)), i)

\* the number branch after the leading digits: the decimal point and the
\* digits after it; decimalCount counts the points taken so far
ScanFraction(source, start, i, decimalCount) ==
    IF CharAt(source, i) = "."
    THEN IF decimalCount > 0 THEN Fail(Err("Invalid number format", ""))
         ELSE ScanExponent(source, start, ScanWhile(source, i + 1, DigitChars))
    ELSE ScanExponent(source, start, i)

\* the number branch
ScanNumber(source, i) ==
    IF CharAt(source, i) = "."
    THEN IF CharAt(source, i + 1) \notin DigitChars THEN Fail(Err("Invalid number format", ""))
         ELSE ScanFraction(source, i, ScanWhile(source, i + 1, DigitChars), 1)
    ELSE ScanFraction(source, i, ScanWhile(source, i + 1, DigitChars), 0)

\* the word branch once the word (upper case) and a following $ are read
WordToken(upperWord, dollar) ==
    IF dollar /\ (upperWord \o "$") \in stringFunctions
    THEN Token("STRING_FUNCTION", upperWord \o "$")
    ELSE IF specialTokens(upperWord) # "" THEN Token(specialTokens(upperWord), upperWord)
    ELSE IF upperWord \in functions THEN Token("FUNCTION", upperWord)
    ELSE IF upperWord \in typeKeywords THEN Token("TYPE", upperWord)
    ELSE Token("IDENTIFIER", upperWord)

\* the identifier and keyword branch; a $ after the word is consumed
ScanWord(source, i) ==
    LET end == ScanWhile(source, i, WordChars)
        dollar == CharAt(source, end) = "$"
    IN Scanned(WordToken(UpperWord(Slice(source, i, end)), dollar),
               IF dollar THEN end + 1 ELSE end)

\* the token type of an operator or symbol
SymbolType(op) ==
    CASE op = "(" -> "LEFT_PAREN"
      [] op = ")" -> "RIGHT_PAREN"
      [] op = "," -> "COMMA"
      [] op = ";" -> "SEMICOLON"
      [] OTHER -> "OPERATOR"

\* the operator branch: a two-character operator is taken whole
ScanSymbol(source, i) ==
    LET twoChar == source[i + 1] \o CharAt(source, i + 1)
    IN IF i + 1 < Len(source) /\ twoChar \in operators
       THEN Scanned(Token("OPERATOR", twoChar), i + 2)
       ELSE Scanned(Token(SymbolType(source[i + 1]), source[i + 1]), i + 1)

\* a colon that leaves the token before it as it is
colonPlain(toks) == Append(toks, Token("NEWLINE", ":"))

\* the colon branch: a preceding IDENTIFIER token becomes a LABEL token, and
\* a NEWLINE token with the value ":" is pushed
colon(toks) ==
    IF Len(toks) > 0 /\ toks[Len(toks)].type = "IDENTIFIER"
    THEN Append([toks EXCEPT ![Len(toks)] = Token("LABEL", toks[Len(toks)].value)],
                Token("NEWLINE", ":"))
    ELSE Append(toks, Token("NEWLINE", ":"))

\* an end of input marked after a separator too
EndOfTokensAlways(toks) == Append(toks, Token("EOF", ""))

\* after the loop: EOF unless the last token is a NEWLINE
EndOfTokens(toks) ==
    IF Len(toks) = 0 \/ toks[Len(toks)].type # "NEWLINE"
    THEN Append(toks, Token("EOF", "")) ELSE toks

\* the loop of tokenize from index i on, toks being the tokens pushed so
\* far: Ok(the token list) or Fail(the error thrown)
RECURSIVE tokenizeFrom(_, _, _)
PushScanned(source, toks, r) ==
    IF ~r.ok THEN r ELSE tokenizeFrom(source, r.v.next, Append(toks, r.v.token))

tokenizeFrom(source, i, toks) ==
    IF i >= Len(source) THEN Ok(EndOfTokens(toks))
    ELSE IF source[i + 1] \in {" ", "\t", "\r"} THEN tokenizeFrom(source, i + 1, toks)
    ELSE IF source[i + 1] = "\n"
    THEN tokenizeFrom(source, i + 1, Append(toks, Token("NEWLINE", "\n")))
    ELSE IF source[i + 1] = ":" THEN tokenizeFrom(source, i + 1, colon(toks))
    ELSE IF source[i + 1] = "'" THEN tokenizeFrom(source, ScanTo(source, i, "\n"), toks)
    ELSE IF source[i + 1] = "\"" THEN PushScanned(source, toks, ScanString(source, i))
    ELSE IF source[i + 1] \in DigitChars \cup {"."}
    THEN PushScanned(source, toks, ScanNumber(source, i))
    ELSE IF source[i + 1] \in LetterChars THEN PushScanned(source, toks, ScanWord(source, i))
    ELSE IF source[i + 1] \in {"+", "-", "*", "/", "<", ">", "=", ",", "(", ")", ";"}
    THEN PushScanned(source, toks, ScanSymbol(source, i))
    ELSE Fail(Err("Unexpected token", source[i + 1]))

tokenize(source) == tokenizeFrom(source, 0, <<>>)

\* --------------------------------------- statement parser (lib/parser.ts)
\* tokens[index].value === word; the value of a NUMBER or STRING token is a
\* lexeme and equals no word
ValueIs(toks, index, word) ==
    /\ toks[index + 1].type \notin {"NUMBER", "STRING"}
    /\ toks[index + 1].value = word

RECURSIVE skipNewlines(_, _)
skipNewlines(toks, index) ==
    IF HasToken(toks, index) /\ isTokenType(toks, index, "NEWLINE")
    THEN skipNewlines(toks, index + 1) ELSE index

\* eat(type).value at index: the value and the index after the token
eatValue(toks, type, index) ==
    IF ~HasToken(toks, index) THEN Fail(Err("Unexpected end of input", ""))
    ELSE IF isTokenType(toks, index, "EOF") THEN Fail(Err("Unexpected end of input", ""))
    ELSE IF ~isTokenType(toks, index, type)
    THEN Fail(Err("Unexpected token", ValueText(toks[index + 1])))
    ELSE Parsed(toks[index + 1].value, index + 1)

\* the error parseStatement throws on WEND, with the index it was thrown at
\* (parseWhileStatement catches it and continues from there)
WendError(index) ==
    [message |-> "Unexpected WEND without matching WHILE", detail |-> "", index |-> index]

IsWendError(e) == e.message = "Unexpected WEND without matching WHILE"

RECURSIVE parseStatement(_, _)
RECURSIVE StatementAt(_, _)
RECURSIVE IfThen(_, _, _, _)
RECURSIVE IfElse(_, _, _, _, _)
RECURSIVE ForBody(_, _, _, _)
RECURSIVE WhileBody(_, _, _, _)
RECURSIVE PrintMore(_, _)

\* ---- DIM
\* size as the DimNode holds it
ArraySize(value) == IF IsInteger(value) THEN value.n ELSE value

DimNode(variable, variableType, size) ==
    IF size = <<>> THEN DimS(variable, variableType)
    ELSE DimArrS(variable, variableType, size[1])

\* parseDimStatement after AS: the TYPE token eaten
DimDeclared(variable, size, r) ==
    IF ~r.ok THEN r
    ELSE IF r.v.node \notin QBTypes THEN Fail(Err("Invalid type", ""))
    ELSE Parsed(DimNode(variable, r.v.node, size), r.v.index)

\* parseDimStatement from the AS test on; size is <<>> or <<the size>>
DimType(toks, variable, size, index) ==
    IF ~HasToken(toks, index) THEN Fail(TypeErrorUndefined)
    ELSE IF isTokenType(toks, index, "AS")
    THEN DimDeclared(variable, size, eatValue(toks, "TYPE", index + 1))
    ELSE Parsed(DimNode(variable, "SINGLE", size), index)

\* parseDimStatement after the closing parenthesis of the size
DimClose(toks, variable, size, r) ==
    IF ~r.ok THEN r ELSE DimType(toks, variable, <<ArraySize(size)>>, r.v.index)

\* parseDimStatement after the size expression
DimSized(toks, variable, r) ==
    IF ~r.ok THEN r
    ELSE IF r.v.node.type # "NumberLiteral"
    THEN Fail(Err("Array size must be a number literal", ""))
    ELSE IF NumLe(r.v.node.value, Num(0)) THEN Fail(Err("Array size must be positive", ""))
    ELSE DimClose(toks, variable, r.v.node.value, eatValue(toks, "RIGHT_PAREN", r.v.index))

\* parseDimStatement after the name
DimNamed(toks, r) ==
    IF ~r.ok THEN r
    ELSE IF ~HasToken(toks, r.v.index) THEN Fail(TypeErrorUndefined)
    ELSE IF isTokenType(toks, r.v.index, "LEFT_PAREN")
    THEN DimSized(toks, r.v.node, parseExpression(toks, r.v.index + 1, 0))
    ELSE DimType(toks, r.v.node, <<>>, r.v.index)

parseDimStatement(toks, index) == DimNamed(toks, eatValue(toks, "IDENTIFIER", index + 1))

\* ---- array assignment (parseStatement and parseLetStatement)
ArrayAssignNode(name, arrayIndex, r) ==
    IF ~r.ok THEN r ELSE Parsed(LetArrS(name, arrayIndex, r.v.node), r.v.index)

ArrayAssignValue(toks, name, arrayIndex, r) ==
    IF ~r.ok THEN r ELSE ArrayAssignNode(name, arrayIndex, parseExpression(toks, r.v.index, 0))

ArrayAssignIndexed(toks, name, r) ==
    IF ~r.ok THEN r
    ELSE ArrayAssignValue(toks, name, r.v.node, eatValue(toks, "OPERATOR", r.v.index))

\* from the token after the opening parenthesis on
ArrayAssignment(toks, name, index) ==
    ArrayAssignIndexed(toks, name, eat(toks, "RIGHT_PAREN", parseExpression(toks, index, 0)))

\* ---- LET
LetNode(variable, r) == IF ~r.ok THEN r ELSE Parsed(LetS(variable, r.v.node), r.v.index)

LetValue(toks, variable, r) ==
    IF ~r.ok THEN r ELSE LetNode(variable, parseExpression(toks, r.v.index, 0))

LetNamed(toks, r) ==
    IF ~r.ok THEN r
    ELSE IF ~HasToken(toks, r.v.index) THEN Fail(TypeErrorUndefined)
    ELSE IF isTokenType(toks, r.v.index, "LEFT_PAREN")
    THEN ArrayAssignment(toks, r.v.node, r.v.index + 1)
    ELSE LetValue(toks, r.v.node, eatValue(toks, "OPERATOR", r.v.index))

parseLetStatement(toks, index) == LetNamed(toks, eatValue(toks, "IDENTIFIER", index + 1))

\* ---- PRINT
\* the node parsePrintStatement returns for the expressions read
PrintNode(expressions) ==
    IF Len(expressions) = 1 THEN PrintS(expressions[1])
    ELSE [type |-> "Print", expressions |-> expressions]

\* the expressions with the blank a comma adds
AfterSeparator(expressions, separator) ==
    IF separator.type = "COMMA" THEN Append(expressions, StrLit(<<" ">>)) ELSE expressions

\* the separator loop of parsePrintStatement; r holds the expressions so far
PrintMore(toks, r) ==
    IF ~r.ok THEN r
    ELSE IF /\ HasToken(toks, r.v.index)
            /\ toks[r.v.index + 1].type \in {"SEMICOLON", "COMMA"}
    THEN IF ~HasToken(toks, r.v.index + 1) THEN Fail(TypeErrorUndefined)
         ELSE IF toks[r.v.index + 2].type \in {"NEWLINE", "EOF"}
         THEN PrintMore(toks, Parsed(r.v.node, r.v.index + 1))
         ELSE PrintMore(toks, PushArg(AfterSeparator(r.v.node, toks[r.v.index + 1]),
                                      parseExpression(toks, r.v.index + 1, 0)))
    ELSE Parsed(PrintNode(r.v.node), r.v.index)

parsePrintStatement(toks, index) ==
    IF ~HasToken(toks, index + 1)
    THEN Parsed(PrintS([type |-> "EmptyExpression"]), index + 1)
    ELSE IF isTokenType(toks, index + 1, "NEWLINE")
    THEN Parsed(PrintS([type |-> "EmptyExpression"]), index + 1)
    ELSE PrintMore(toks, PushArg(<<>>, parseExpression(toks, index + 1, 0)))

\* ---- FOR
ForNode(header, body) ==
    IF header.step = <<>> THEN ForS(header.variable, header.start, header.end, body)
    ELSE ForStepS(header.variable, header.start, header.end, header.step[1], body)

\* parseForStatement after NEXT: the variable eaten
ForClose(header, body, r) ==
    IF ~r.ok THEN r
    ELSE IF r.v.node # header.variable
    THEN Fail(Err("Mismatched FOR/NEXT variables", <<header.variable, r.v.node>>))
    ELSE Parsed(ForNode(header, body), r.v.index)

\* body.push(parseStatement()); skipNewlines()
ForPush(toks, header, body, r) ==
    IF ~r.ok THEN r
    ELSE ForBody(toks, header, Append(body, r.v.node), skipNewlines(toks, r.v.index))

\* the body loop of parseForStatement, and what follows it
ForBody(toks, header, body, index) ==
    IF ~HasToken(toks, index) THEN Fail(Err("Expected NEXT at end of FOR loop", ""))
    ELSE IF isTokenType(toks, index, "NEXT_KEYWORD")
    THEN ForClose(header, body, eatValue(toks, "IDENTIFIER", index + 1))
    ELSE IF isTokenType(toks, index, "NEWLINE") THEN ForBody(toks, header, body, index + 1)
    ELSE ForPush(toks, header, body, parseStatement(toks, index))

\* parseForStatement after the STEP expression
ForStepped(toks, header, r) ==
    IF ~r.ok THEN r
    ELSE ForBody(toks, [header EXCEPT !.step = <<r.v.node>>], <<>>,
                 skipNewlines(toks, r.v.index))

\* parseForStatement after the end expression
ForTo(toks, header, r) ==
    IF ~r.ok THEN r
    ELSE IF ~HasToken(toks, r.v.index) THEN Fail(TypeErrorUndefined)
    ELSE IF isTokenType(toks, r.v.index, "STEP_KEYWORD")
    THEN ForStepped(toks, [header EXCEPT !.end = r.v.node],
                    parseExpression(toks, r.v.index + 1, 0))
    ELSE ForBody(toks, [header EXCEPT !.end = r.v.node], <<>>, skipNewlines(toks, r.v.index))

\* parseForStatement after the start expression
ForFrom(toks, variable, r) ==
    IF ~r.ok THEN r
    ELSE IF ~HasToken(toks, r.v.index) THEN Fail(TypeErrorUndefined)
    ELSE IF ~isTokenType(toks, r.v.index, "TO_KEYWORD")
    THEN Fail(Err("Expected TO after FOR initialization", ""))
    ELSE ForTo(toks, [variable |-> variable, start |-> r.v.node, end |-> r.v.node,
                      step |-> <<>>],
               parseExpression(toks, r.v.index + 1, 0))

ForAssigned(toks, variable, r) ==
    IF ~r.ok THEN r ELSE ForFrom(toks, variable, parseExpression(toks, r.v.index, 0))

ForNamed(toks, r) ==
    IF ~r.ok THEN r ELSE ForAssigned(toks, r.v.node, eatValue(toks, "OPERATOR", r.v.index))

parseForStatement(toks, index) == ForNamed(toks, eatValue(toks, "IDENTIFIER", index + 1))

\* ---- WHILE
\* the try/catch around parseStatement in the body loop
WhilePush(toks, condition, body, r) ==
    IF ~r.ok
    THEN (IF IsWendError(r.e) THEN Parsed(WhileS(condition, body), r.e.index + 1) ELSE r)
    ELSE WhileBody(toks, condition, Append(body, r.v.node), skipNewlines(toks, r.v.index))

\* the body loop of parseWhileStatement
WhileBody(toks, condition, body, index) ==
    IF ~HasToken(toks, index)
    THEN Fail(Err("Unexpected end of input: While statement requires WEND", ""))
    ELSE IF isTokenType(toks, index, "WEND_KEYWORD")
    THEN Parsed(WhileS(condition, body), index + 1)
    ELSE IF isTokenType(toks, index, "NEWLINE") THEN WhileBody(toks, condition, body, index + 1)
    ELSE WhilePush(toks, condition, body, parseStatement(toks, index))

WhileCondition(toks, r) ==
    IF ~r.ok THEN r ELSE WhileBody(toks, r.v.node, <<>>, skipNewlines(toks, r.v.index))

parseWhileStatement(toks, index) == WhileCondition(toks, parseExpression(toks, index + 1, 0))

\* ---- IF
\* the END IF validation
IfEnd(toks, index, node) ==
    IF ~HasToken(toks, index) THEN Fail(Err("Expected END IF after multi-line IF block", ""))
    ELSE IF ~ValueIs(toks, index, "END")
    THEN Fail(Err("Expected END IF after multi-line IF block", ""))
    ELSE IF ~HasToken(toks, index + 1) THEN Fail(Err("Expected IF after END", ""))
    ELSE IF ~ValueIs(toks, index + 1, "IF") THEN Fail(Err("Expected IF after END", ""))
    ELSE Parsed(node, index + 2)

IfElsePush(toks, condition, thenBranch, body, r) ==
    IF ~r.ok THEN r
    ELSE IfElse(toks, condition, thenBranch, Append(body, r.v.node),
                skipNewlines(toks, r.v.index))

\* the ELSE branch loop of a multi-line IF
IfElse(toks, condition, thenBranch, body, index) ==
    IF /\ HasToken(toks, index)
       /\ ~isTokenType(toks, index, "EOF")
       /\ ~ValueIs(toks, index, "END")
    THEN IF isTokenType(toks, index, "NEWLINE")
         THEN IfElse(toks, condition, thenBranch, body, index + 1)
         ELSE IfElsePush(toks, condition, thenBranch, body, parseStatement(toks, index))
    ELSE IfEnd(toks, index, IfElseS(condition, thenBranch, body))

IfThenPush(toks, condition, body, r) ==
    IF ~r.ok THEN r
    ELSE IfThen(toks, condition, Append(body, r.v.node), skipNewlines(toks, r.v.index))

\* the THEN branch loop of a multi-line IF, and what follows it
IfThen(toks, condition, body, index) ==
    IF /\ HasToken(toks, index)
       /\ ~isTokenType(toks, index, "EOF")
       /\ ~isTokenType(toks, index, "ELSE_KEYWORD")
       /\ ~ValueIs(toks, index, "END")
       /\ ~ValueIs(toks, index, "ELSE")
    THEN IF isTokenType(toks, index, "NEWLINE") THEN IfThen(toks, condition, body, index + 1)
         ELSE IfThenPush(toks, condition, body, parseStatement(toks, index))
    ELSE IF HasToken(toks, index) /\ ValueIs(toks, index, "ELSE")
    THEN IfElse(toks, condition, body, <<>>, skipNewlines(toks, index + 1))
    ELSE IfEnd(toks, index, IfS(condition, body))

\* single-line IF after the ELSE statement
IfSingleElse(condition, thenStatement, r) ==
    IF ~r.ok THEN r
    ELSE Parsed(IfElseS(condition, <<thenStatement>>, <<r.v.node>>), r.v.index)

\* single-line IF after the THEN statement
IfSingle(toks, condition, r) ==
    IF ~r.ok THEN r
    ELSE IF ~HasToken(toks, r.v.index) THEN Fail(TypeErrorUndefined)
    ELSE IF isTokenType(toks, r.v.index, "ELSE_KEYWORD")
    THEN IfSingleElse(condition, r.v.node, parseStatement(toks, r.v.index + 1))
    ELSE Parsed(IfS(condition, <<r.v.node>>), r.v.index)

\* parseIfStatement from the token after THEN on
IfBranches(toks, condition, index) ==
    IF ~HasToken(toks, index) THEN Fail(TypeErrorUndefined)
    ELSE IF ~isTokenType(toks, index, "NEWLINE")
    THEN IfSingle(toks, condition, parseStatement(toks, index))
    ELSE IfThen(toks, condition, <<>>, index + 1)

\* parseIfStatement after the condition
IfCondition(toks, r) ==
    IF ~r.ok THEN r
    ELSE IF ~HasToken(toks, r.v.index) THEN Fail(TypeErrorUndefined)
    ELSE IF ~isTokenType(toks, r.v.index, "THEN_KEYWORD")
    THEN Fail(Err("Expected THEN after IF condition", ""))
    ELSE IfBranches(toks, r.v.node, r.v.index + 1)

parseIfStatement(toks, index) == IfCondition(toks, parseExpression(toks, index + 1, 0))

\* ---- parseStatement
\* a function call as a statement: { type: "Print", expression: expr }
PrintOf(r) == IF ~r.ok THEN r ELSE Parsed(PrintS(r.v.node), r.v.index)

GotoNode(r) == IF ~r.ok THEN r ELSE Parsed(GotoS(r.v.node), r.v.index)

InputNode(r) == IF ~r.ok THEN r ELSE Parsed(InputS(r.v.node), r.v.index)

\* the default case of the switch
KeywordStatement(toks, index) ==
    IF isTokenType(toks, index, "KEYWORD") /\ toks[index + 1].value = "PRINT"
    THEN parsePrintStatement(toks, index)
    ELSE IF isTokenType(toks, index, "KEYWORD") /\ toks[index + 1].value = "LET"
    THEN parseLetStatement(toks, index)
    ELSE IF isTokenType(toks, index, "KEYWORD") /\ toks[index + 1].value = "INPUT"
    THEN InputNode(eatValue(toks, "IDENTIFIER", index + 1))
    ELSE IF isTokenType(toks, index, "KEYWORD") /\ toks[index + 1].value = "CLS"
    THEN Parsed(ClsS, index + 1)
    ELSE Fail(Err("Unexpected token", ValueText(toks[index + 1])))

\* parseStatement after skipNewlines
StatementAt(toks, index) ==
    IF ~HasToken(toks, index) THEN Fail(Err("Unexpected end of input", ""))
    ELSE IF isTokenType(toks, index, "EOF") THEN Fail(Err("Unexpected end of input", ""))
    ELSE IF isTokenType(toks, index, "IDENTIFIER")
    THEN IF ~HasToken(toks, index + 1) THEN Fail(TypeErrorUndefined)
         ELSE IF isTokenType(toks, index + 1, "LEFT_PAREN")
         THEN ArrayAssignment(toks, toks[index + 1].value, index + 2)
         ELSE Fail(Err("Unexpected token", toks[index + 1].value))
    ELSE IF toks[index + 1].type \in {"STRING_FUNCTION", "FUNCTION"}
    THEN PrintOf(parsePrimary(toks, index))
    ELSE CASE isTokenType(toks, index, "DIM_KEYWORD") -> parseDimStatement(toks, index)
           [] isTokenType(toks, index, "IF_KEYWORD") -> parseIfStatement(toks, index)
           [] isTokenType(toks, index, "WHILE_KEYWORD") -> parseWhileStatement(toks, index)
           [] isTokenType(toks, index, "FOR_KEYWORD") -> parseForStatement(toks, index)
           [] isTokenType(toks, index, "GOTO_KEYWORD") ->
                GotoNode(eatValue(toks, "IDENTIFIER", index + 1))
           [] isTokenType(toks, index, "LABEL") ->
                Parsed(LabelS(toks[index + 1].value), index + 1)
           [] isTokenType(toks, index, "WEND_KEYWORD") -> Fail(WendError(index))
           [] OTHER -> KeywordStatement(toks, index)

parseStatement(toks, index) == StatementAt(toks, skipNewlines(toks, index))

\* ---- parse
RECURSIVE ParseLoop(_, _, _)
\* statements.push(parseStatement()); an error leaves parse as it was thrown
ParsePush(toks, stmts, r) ==
    IF ~r.ok THEN Fail(Err(r.e.message, r.e.detail))
    ELSE ParseLoop(toks, Append(stmts, r.v.node), r.v.index)

\* the loop body of parse after skipNewlines
ParseNext(toks, stmts, index) ==
    IF ~HasToken(toks, index) THEN Ok(stmts)
    ELSE IF isTokenType(toks, index, "EOF") THEN Ok(stmts)
    ELSE ParsePush(toks, stmts, parseStatement(toks, index))

\* the parser loop: Ok(the statements) or Fail(the error thrown)
ParseLoop(toks, stmts, index) ==
    IF ~HasToken(toks, index) THEN Ok(stmts)
    ELSE ParseNext(toks, stmts, skipNewlines(toks, index))

\* parse after tokenize(source) returned or threw
ParseTokens(t) == IF ~t.ok THEN t ELSE ParseLoop(t.v, <<>>, 0)

parse(source) == ParseTokens(tokenize(source))

\* ------------------------------------------------- the programs executed
\* all sequences of length 1..n over the set S
SeqsUpTo(S, n) == UNION {[1..k -> S] : k \in 1..n}

\* control flow: GOTO, top-level and nested labels, jumps out of bodies,
\* and a statement that raises a runtime error
GotoMenu ==
    { PrintS(StrLit(<<"a">>)),
      PrintS(Var("U")),
      GotoS("L"),
      LabelS("L"),
      IfS(NumLit(1), <<LabelS("L")>>),
      WhileS(NumLit(1), <<PrintS(StrLit(<<"w">>)), GotoS("L")>>),
      ForS("I", NumLit(1), NumLit(2), <<IfS(Bin("=", Var("I"), NumLit(2)), <<GotoS("L")>>)>>) }

GotoPrograms == SeqsUpTo(GotoMenu, MaxProg)

\* variables and arrays: every way of declaring X, then assignments, array
\* stores and reads (in range, out of range, failing right-hand side),
\* FOR and INPUT on the same name
VarMenu ==
    { DimS("X", ty) : ty \in QBTypes }
    \cup { DimArrS("X", "INTEGER", 2), DimArrS("X", "STRING", 2) }
    \cup { LetS("X", NumLit(5)), LetS("X", StrLit(<<"s">>)) }
    \cup { LetArrS("X", NumLit(k), NumLit(5)) : k \in {-1, 1, 2} }
    \cup { LetArrS("X", NumLit(2), Var("U")),
           LetArrS("X", NumLit(3), StrLit(<<"s">>)),
           LetArrS("X", NumLit(0), StrLit(<<"s">>)) }
    \cup { PrintS(ArrAcc("X", NumLit(k))) : k \in {-1, 0, 2} }
    \cup { ForS("X", NumLit(1), NumLit(1), <<>>), InputS("X") }

VarPrograms == SeqsUpTo(VarMenu, MaxVarProg)

\* FOR loops over every start, end and step of the range
ForSteps == (-ForRange .. ForRange) \ {0}

ForPrograms ==
    { <<ForStepS("I", NumLit(a), NumLit(b), NumLit(s), <<ClsS>>)>> :
        a \in -ForRange .. ForRange, b \in -ForRange .. ForRange, s \in ForSteps }
    \cup { <<ForS("I", NumLit(a), NumLit(b), <<ClsS>>)>> :
        a \in -ForRange .. ForRange, b \in -ForRange .. ForRange }

\* programs of the test suite (tests/control-flow.test.ts)
TestPrograms ==
    { <<ForS("I", NumLit(1), NumLit(3), <<PrintS(Var("I"))>>)>>,
      <<LetS("X", NumLit(1)),
        WhileS(Bin("<=", Var("X"), NumLit(3)),
               <<PrintS(Var("X")), LetS("X", Bin("+", Var("X"), NumLit(1)))>>)>>,
      <<PrintS(StrLit(<<"s">>)), GotoS("SKIP"), PrintS(StrLit(<<"h">>)), LabelS("SKIP"),
        PrintS(StrLit(<<"e">>))>>,
      <<ForS("I", NumLit(1), NumLit(0), <<PrintS(StrLit(<<"n">>))>>),
        PrintS(StrLit(<<"d">>))>>,
      <<LetS("X", NumLit(1)),
        WhileS(Bin("=", Var("X"), NumLit(1)), <<PrintS(Var("X")), GotoS("ESCAPE")>>),
        LabelS("ESCAPE"),
        PrintS(StrLit(<<"e">>))>>,
      <<IfElseS(Bin("<", NumLit(1), NumLit(0)), <<PrintS(StrLit(<<"t">>))>>,
                <<PrintS(StrLit(<<"f">>))>>)>> }

\* PRINT x / 0 (tests/interpreter.test.ts, "division by zero") for numerators
\* of every sign, literal, negated, computed and held by a variable, and for
\* a zero that is computed; a second statement follows
Numerators ==
    { NumLit(10), NumLit(0), NumLit(-2), Un("-", NumLit(2)),
      Bin("-", NumLit(1), NumLit(3)), Bin("/", NumLit(1), NumLit(0)), Var("X") }

Zeros == { NumLit(0), Bin("-", NumLit(1), NumLit(1)), Un("-", NumLit(0)) }

DivisionPrograms ==
    { <<LetS("X", NumLit(-3)), PrintS(Bin("/", x, z)), PrintS(StrLit(<<"e">>))>> :
        x \in Numerators, z \in Zeros }

\* PRINT of comparisons and of AND, OR, NOT (tests/interpreter.test.ts,
\* "operator precedence and grouping"), true ones and false ones
BooleanExpressions ==
    { Bin(op, NumLit(1), NumLit(2)) : op \in {"=", "<>", "<", ">", "<=", ">="} }
    \cup { Bin("=", StrLit(<<"s">>), StrLit(<<"s">>)), Bin("<", StrLit(<<"s">>), StrLit(<<"s">>)) }
    \cup { Bin(op, NumLit(a), NumLit(b)) : op \in {"AND", "OR"}, a \in {0, 1}, b \in {0, 1} }
    \cup { Un("NOT", NumLit(0)), Un("NOT", NumLit(1)),
           Bin("AND", Un("NOT", NumLit(0)), NumLit(1)),
           Bin("OR", NumLit(1), Bin("AND", NumLit(0), NumLit(0))),
           Un("NOT", Bin("<", NumLit(1), NumLit(2))) }

BooleanPrograms == { <<PrintS(e), PrintS(StrLit(<<"e">>))>> : e \in BooleanExpressions }

\* the counting loop closed by a backward GOTO: the counter starts at 0, is
\* incremented after the label, and the IF jumps back while it is below n
CounterLoop(n) ==
    <<LetS("C", NumLit(0)),
      LabelS("L"),
      LetS("C", Bin("+", Var("C"), NumLit(1))),
      IfS(Bin("<", Var("C"), NumLit(n)), <<GotoS("L")>>),
      PrintS(Var("C"))>>

\* backward jumps: the counting loops, and a backward GOTO taken after a
\* label of the same name inside an IF body was executed
BackwardPrograms ==
    { CounterLoop(n) : n \in 1 .. MaxCount }
    \cup { <<PrintS(StrLit(<<"a">>)), LabelS("L"), IfS(NumLit(1), <<LabelS("L")>>),
             GotoS("L")>> }

\* calls of the numeric built-ins (tests/interpreter.test.ts, "interpreter
\* handles function errors"): string arguments (a word, the empty string, a
\* numeral) and number arguments, printed and assigned; an unknown function
StringArguments == { StrLit(<<"h">>), StrLit(<<>>), StrLit(<<"1", "2">>) }

NumberCalls ==
    { Call(f, <<NumLit(0)>>) : f \in NumericBuiltins }
    \cup { Call(f, <<NumLit(-4)>>) : f \in {"ABS", "SGN", "INT", "SQR", "LOG", "CINT", "CDBL"} }
    \cup { Call("SQR", <<NumLit(4)>>), Call("LOG", <<NumLit(1)>>), Call("CSNG", <<NumLit(4)>>),
           Call("ABS", <<Call("SGN", <<NumLit(-10)>>)>>), Call("ABS", <<Var("U")>>),
           Call("UNKNOWN", <<NumLit(5)>>) }

FunctionPrograms ==
    { <<PrintS(Call(f, <<a>>)), PrintS(StrLit(<<"e">>))>> :
        f \in NumericBuiltins, a \in StringArguments }
    \cup { <<LetS("X", Call(f, <<StrLit(<<"h">>)>>)), PrintS(StrLit(<<"e">>))>> :
             f \in NumericBuiltins }
    \cup { <<PrintS(c), PrintS(StrLit(<<"e">>))>> : c \in NumberCalls }

\* operands of AND and OR: zero and nonzero numbers, the empty and a
\* non-empty string, a true and a false comparison
TruthOperands ==
    { NumLit(0), NumLit(2), StrLit(<<>>), StrLit(<<"a">>),
      Bin("<", NumLit(1), NumLit(2)), Bin("<", NumLit(2), NumLit(1)) }

\* IF a THEN PRINT "t" ELSE PRINT "f" / PRINT NOT a / PRINT a op b
TruthProgram(op, a, b) ==
    <<IfElseS(a, <<PrintS(StrLit(<<"t">>))>>, <<PrintS(StrLit(<<"f">>))>>),
      PrintS(Un("NOT", a)),
      PrintS(Bin(op, a, b))>>

TruthPrograms ==
    { TruthProgram(op, a, b) :
        op \in {"AND", "OR"}, a \in TruthOperands, b \in TruthOperands }

\* index expressions k / 2: the integers and the halves around the bounds of
\* an array of two slots; and strings, which Number converts
IndexExpressions ==
    { Bin("/", NumLit(k), NumLit(2)) : k \in -3 .. 5 }
    \cup { StrLit(<<"1">>), StrLit(<<"x">>) }

\* DIM A(2) AS INTEGER / LET A(e) = 5 / PRINT A(e)
IndexPrograms ==
    { <<DimArrS("A", "INTEGER", 2), LetArrS("A", e, NumLit(5)), PrintS(ArrAcc("A", e))>> :
        e \in IndexExpressions }

\* what a FOR body assigns: the variables of the end, step and start
\* expressions, and the loop variable itself
BodyAssignments ==
    { LetS("N", NumLit(0)), LetS("N", NumLit(9)), LetS("S", NumLit(5)),
      LetS("S", NumLit(-1)), LetS("A", NumLit(9)), LetS("I", NumLit(7)) }

\* LET A = a / LET N = n / LET S = s /
\* FOR I = A TO N STEP S: PRINT I: <assignment>: NEXT I / PRINT I
FixedForProgram(a, n, s, assignment) ==
    <<LetS("A", NumLit(a)), LetS("N", NumLit(n)), LetS("S", NumLit(s)),
      ForStepS("I", Var("A"), Var("N"), Var("S"), <<PrintS(Var("I")), assignment>>),
      PrintS(Var("I"))>>

FixedForPrograms ==
    { FixedForProgram(a, n, s, b) :
        a \in {1, 2}, n \in {1, 3}, s \in {1, 2, -1}, b \in BodyAssignments }

\* DIM X AS INTEGER / LET X = 1 / 2, and the same on a SINGLE variable
FractionPrograms ==
    { <<DimS("X", ty), LetS("X", Bin("/", NumLit(1), NumLit(2))), PrintS(Var("X"))>> :
        ty \in {"INTEGER", "SINGLE"} }

\* PRINT e1; e2
PrintList(expressions) == [type |-> "Print", expressions |-> expressions]

\* expressions that fail, each with an error of its own, after no await
\* (an undefined variable) or after awaits (an operator or an array access
\* over it), and one that does not fail
RaceExpressions ==
    { Var("U"), Var("V"), Un("NOT", Var("U")), Un("-", Var("V")),
      ArrAcc("W", NumLit(0)), Bin("+", Var("U"), NumLit(1)),
      Bin("*", NumLit(2), Var("V")), NumLit(1) }

\* PRINT e1; e2 and PRINT ATN2(e1, e2), followed by a statement
RacePrograms ==
    { <<PrintList(<<e1, e2>>), ClsS>> : e1 \in RaceExpressions, e2 \in RaceExpressions }
    \cup { <<PrintS(Call("ATN2", <<e1, e2>>)), ClsS>> :
             e1 \in RaceExpressions, e2 \in RaceExpressions }

Programs ==
    RacePrograms \cup FractionPrograms \cup FixedForPrograms \cup IndexPrograms \cup GotoPrograms \cup VarPrograms \cup ForPrograms \cup TestPrograms
    \cup DivisionPrograms \cup BooleanPrograms \cup BackwardPrograms
    \cup FunctionPrograms \cup TruthPrograms

\* ------------------------------------------------------------ specification
NoAst == [type |-> "none"]

Init ==
    /\ program \in Programs
    /\ statements = <<>>
    /\ labels = NoVars
    /\ variables = NoVars
    /\ pc = 0
    /\ stack = <<>>
    /\ output = <<>>
    /\ status = "idle"
    /\ error = NoError
    /\ last = NoLast
    /\ storedTo = {}
    /\ tokens = <<>>
    /\ ast = NoAst
    /\ sourceLines = <<>>
    /\ sourceText = <<>>
    /\ calls = 0

Next ==
    \/ Execute
    \/ ExecDim
    \/ ExecPrint
    \/ ExecLet
    \/ ExecInput
    \/ ExecCls
    \/ ExecIf
    \/ EndIf
    \/ ExecFor
    \/ ForNext
    \/ ExecWhile
    \/ WhileNext
    \/ ExecLabel
    \/ ExecGoto
    \/ Finish

Spec == Init /\ [][Next]_vars

\* ------------------------------------------- one instance, many calls
\* the lines typed at the prompt (tests/qb.test.ts) and programs of the
\* test suite
ReplPrograms ==
    TestPrograms
    \cup { <<PrintS(StrLit(<<"h">>))>>,
           <<LetS("X", NumLit(42))>>,
           <<PrintS(Var("X"))>>,
           <<PrintS(Var("U"))>>,
           <<DimS("X", "INTEGER"), InputS("Y"), ClsS>>,
           <<LabelS("SKIP"), LetS("Y", NumLit(1))>>,
           <<GotoS("SKIP")>> }

InitRepl ==
    /\ program \in ReplPrograms
    /\ statements = <<>>
    /\ labels = NoVars
    /\ variables = NoVars
    /\ pc = 0
    /\ stack = <<>>
    /\ output = <<>>
    /\ status = "idle"
    /\ error = NoError
    /\ last = NoLast
    /\ storedTo = {}
    /\ tokens = <<>>
    /\ ast = NoAst
    /\ sourceLines = <<>>
    /\ sourceText = <<>>
    /\ calls = 0

\* execute(source) on an instance whose earlier call completed or failed
ExecuteAgain ==
    /\ status \in {"done", "failed"}
    /\ calls < MaxCalls
    /\ \E source \in ReplPrograms :
        /\ program' = source
        /\ Run(reset, source, FALSE)
    /\ UNCHANGED <<output, parseVars>>

\* a reset step that clears the variable bindings too
resetRetainingNone == [variables |-> NoVars, labels |-> NoVars, statements |-> <<>>]

\* the fields after the reset step of execute(source, false): the variable
\* bindings stay, the label table and the statement list are cleared
resetRetaining == [variables |-> variables, labels |-> NoVars, statements |-> <<>>]

\* interpreter.execute(input, false), a line of the prompt
ExecuteRetain ==
    /\ status \in {"done", "failed"}
    /\ calls < MaxCalls
    /\ \E source \in ReplPrograms :
        /\ program' = source
        /\ Run(resetRetaining, source, TRUE)
    /\ UNCHANGED <<output, parseVars>>

NextRepl ==
    \/ Next
    \/ ExecuteAgain
    \/ ExecuteRetain

SpecRepl == InitRepl /\ [][NextRepl]_vars

\* ------------------------------------------------- execute from source
\* The statements of a program, one text each; the source joins them with
\* line breaks or with colons.
\* LET x = 1 / PRINT x / LET x = 2 / PRINT x (tests/interpreter.test.ts)
TestLines ==
    <<<<"L", "E", "T", " ", "x", " ", "=", " ", "1">>,
      <<"P", "R", "I", "N", "T", " ", "x">>,
      <<"L", "E", "T", " ", "x", " ", "=", " ", "2">>,
      <<"P", "R", "I", "N", "T", " ", "x">>>>

\* FOR i = 1 TO 3 / PRINT i / NEXT i
ForLines ==
    <<<<"F", "O", "R", " ", "i", " ", "=", " ", "1", " ", "T", "O", " ", "3">>,
      <<"P", "R", "I", "N", "T", " ", "i">>,
      <<"N", "E", "X", "T", " ", "i">>>>

\* PRINT 1 / PRINT "a", 2
PrintLines ==
    <<<<"P", "R", "I", "N", "T", " ", "1">>,
      <<"P", "R", "I", "N", "T", " ", "\"", "a", "\"", ",", " ", "2">>>>

\* DIM a(2) AS INTEGER / LET a(1) = 5 / PRINT a(1)
ArrayLines ==
    <<<<"D", "I", "M", " ", "a", "(", "2", ")", " ", "A", "S", " ", "I", "N", "T", "E", "G", "E", "R">>,
      <<"L", "E", "T", " ", "a", "(", "1", ")", " ", "=", " ", "5">>,
      <<"P", "R", "I", "N", "T", " ", "a", "(", "1", ")">>>>

\* INPUT y / PRINT y
InputSourceLines ==
    <<<<"I", "N", "P", "U", "T", " ", "y">>,
      <<"P", "R", "I", "N", "T", " ", "y">>>>

\* CLS / PRINT 2
ClsLines ==
    <<<<"C", "L", "S">>,
      <<"P", "R", "I", "N", "T", " ", "2">>>>

\* LET x = 1 / WHILE x < 3 / LET x = x + 1 / WEND / PRINT 3
WhileLines ==
    <<<<"L", "E", "T", " ", "x", " ", "=", " ", "1">>,
      <<"W", "H", "I", "L", "E", " ", "x", " ", "<", " ", "3">>,
      <<"L", "E", "T", " ", "x", " ", "=", " ", "x", " ", "+", " ", "1">>,
      <<"W", "E", "N", "D">>,
      <<"P", "R", "I", "N", "T", " ", "3">>>>

\* IF 1 < 2 THEN / PRINT 1 / ELSE / PRINT 2 / END IF
IfLines ==
    <<<<"I", "F", " ", "1", " ", "<", " ", "2", " ", "T", "H", "E", "N">>,
      <<"P", "R", "I", "N", "T", " ", "1">>,
      <<"E", "L", "S", "E">>,
      <<"P", "R", "I", "N", "T", " ", "2">>,
      <<"E", "N", "D", " ", "I", "F">>>>

\* GOTO L / PRINT 1 / L: / PRINT 2
GotoLines ==
    <<<<"G", "O", "T", "O", " ", "L">>,
      <<"P", "R", "I", "N", "T", " ", "1">>,
      <<"L", ":">>,
      <<"P", "R", "I", "N", "T", " ", "2">>>>

\* L: / PRINT 1
LabelLines ==
    <<<<"L", ":">>,
      <<"P", "R", "I", "N", "T", " ", "1">>>>

\* the lines that open and close blocks, and a statement for their bodies
WhileLine == <<"W", "H", "I", "L", "E", " ", "0">>  \* WHILE 0
WendLine == <<"W", "E", "N", "D">>  \* WEND
ForLine == <<"F", "O", "R", " ", "i", " ", "=", " ", "1", " ", "T", "O", " ", "2">>  \* FOR i = 1 TO 2
NextLine == <<"N", "E", "X", "T", " ", "i">>  \* NEXT i
IfLine == <<"I", "F", " ", "1", " ", "T", "H", "E", "N">>  \* IF 1 THEN
EndIfLine == <<"E", "N", "D", " ", "I", "F">>  \* END IF
PrintLine == <<"P", "R", "I", "N", "T", " ", "1">>  \* PRINT 1

BlockLines ==
    {WhileLine, WendLine, ForLine, NextLine, IfLine, EndIfLine, PrintLine}

\* every program of at most MaxBlockLines such lines, closed or not
BlockPrograms == SeqsUpTo(BlockLines, MaxBlockLines)

SourcePrograms ==
    {TestLines, ForLines, PrintLines, ArrayLines, InputSourceLines,
     ClsLines, WhileLines, IfLines, GotoLines, LabelLines}
        \cup BlockPrograms

\* the texts joined by the separator
RECURSIVE Join(_, _)
Join(texts, separator) ==
    IF texts = <<>> THEN <<>>
    ELSE IF Len(texts) = 1 THEN texts[1]
    ELSE texts[1] \o <<separator>> \o Join(Tail(texts), separator)

InitSource ==
    /\ sourceLines \in SourcePrograms
    /\ sourceText \in {Join(sourceLines, "\n"), Join(sourceLines, ":")}
    /\ program = <<>>
    /\ statements = <<>>
    /\ labels = NoVars
    /\ variables = NoVars
    /\ pc = 0
    /\ stack = <<>>
    /\ output = <<>>
    /\ status = "idle"
    /\ error = NoError
    /\ last = NoLast
    /\ storedTo = {}
    /\ tokens = <<>>
    /\ ast = NoAst
    /\ calls = 0

\* execute(source) from parse(source) on: r is what parse returned or threw;
\* an error of the tokenizer or the parser is what execute fails with
ExecuteParsed(r) ==
    IF r.ok
    THEN /\ program' = r.v
         /\ Run(reset, r.v, FALSE)
    ELSE /\ status' = "failed"
         /\ error' = r.e
         /\ statements' = reset.statements
         /\ labels' = reset.labels
         /\ variables' = reset.variables
         /\ calls' = calls + 1
         /\ last' = [type |-> "Execute", retain |-> FALSE, had |-> variables,
                      hadLabels |-> labels]
         /\ UNCHANGED <<program, pc, stack, storedTo>>

\* execute(source) on a source text
ExecuteSource ==
    /\ status = "idle"
    /\ ExecuteParsed(parse(sourceText))
    /\ UNCHANGED <<output, parseVars>>

NextSource ==
    \/ ExecuteSource
    \/ ExecDim
    \/ ExecPrint
    \/ ExecLet
    \/ ExecInput
    \/ ExecCls
    \/ ExecIf
    \/ EndIf
    \/ ExecFor
    \/ ForNext
    \/ ExecWhile
    \/ WhileNext
    \/ ExecLabel
    \/ ExecGoto
    \/ Finish

SpecSource == InitSource /\ [][NextSource]_vars

\* ------------------------------------------------- FOR loops to their end
\* bodies that end and do not jump: a statement without effect on the
\* variables, and an assignment to the loop variable
StepBodies == { <<ClsS>>, <<LetS("I", NumLit(0))>> }

\* FOR I = a TO b STEP s over every start, end and step of the range, the
\* step 0 included
StepPrograms ==
    { <<ForStepS("I", NumLit(a), NumLit(b), NumLit(s), body)>> :
        a \in -ForRange .. ForRange, b \in -ForRange .. ForRange,
        s \in -ForRange .. ForRange, body \in StepBodies }

InitFor ==
    /\ program \in StepPrograms
    /\ statements = <<>>
    /\ labels = NoVars
    /\ variables = NoVars
    /\ pc = 0
    /\ stack = <<>>
    /\ output = <<>>
    /\ status = "idle"
    /\ error = NoError
    /\ last = NoLast
    /\ storedTo = {}
    /\ tokens = <<>>
    /\ ast = NoAst
    /\ sourceLines = <<>>
    /\ sourceText = <<>>
    /\ calls = 0

NextFor ==
    \/ Execute
    \/ ExecFor
    \/ ExecCls
    \/ ExecLet
    \/ ForNext
    \/ Finish

\* execute is awaited: the interpreter keeps taking steps while it can
SpecFor == InitFor /\ [][NextFor]_vars /\ WF_vars(NextFor)

\* ------------------------------------------------- tokenize on its own
\* a word, a number, the separators, white space, a comment, a string quote,
\* an operator and a decimal point
SourceChars == {"a", "1", "\n", ":", " ", "'", "\"", "+", "."}

SourceTexts == {<<>>} \cup SeqsUpTo(SourceChars, MaxSource)

InitTokens ==
    /\ sourceText \in SourceTexts
    /\ sourceLines = <<>>
    /\ tokens = <<>>
    /\ ast = NoAst
    /\ program = <<>>
    /\ statements = <<>>
    /\ labels = NoVars
    /\ variables = NoVars
    /\ pc = 0
    /\ stack = <<>>
    /\ output = <<>>
    /\ status = "idle"
    /\ error = NoError
    /\ last = NoLast
    /\ storedTo = {}
    /\ calls = 0

\* tokenize returned or threw r
Tokenized(r) ==
    IF r.ok
    THEN tokens' = r.v /\ status' = "tokenized" /\ UNCHANGED error
    ELSE error' = r.e /\ status' = "failed" /\ UNCHANGED tokens

\* tokenize(source)
Tokenize ==
    /\ status = "idle"
    /\ Tokenized(tokenize(sourceText))
    /\ UNCHANGED <<program, statements, labels, variables, pc, stack, output,
                   last, storedTo, ast, sourceLines, sourceText, calls>>

NextTokens == Tokenize

SpecTokens == InitTokens /\ [][NextTokens]_vars

\* ------------------------------------------- the expressions parsed
BinaryOperators == {"OR", "AND", "=", "<>", "<", ">", "<=", ">=", "+", "-", "*", "/"}

\* operands by position: identifiers, and the numbers 10, 3, 2, 4
OperandNames == <<"A", "B", "C", "D">>

OperandNumbers == << <<"1", "0">>, <<"3">>, <<"2">>, <<"4">> >>

IdentifierToken(k) == Token("IDENTIFIER", OperandNames[k])

NumberToken(k) == Token("NUMBER", OperandNumbers[k])

EofToken == Token("EOF", "")

\* operand 1, then for each operator of ops the operator and the next operand,
\* as the tokenizer delivers "A - B - C": ends with the EOF token
RECURSIVE ChainTokens(_, _, _)
ChainTokens(numeric, ops, k) ==
    <<IF numeric THEN NumberToken(k) ELSE IdentifierToken(k)>>
    \o (IF k > Len(ops) THEN <<EofToken>>
        ELSE <<Token("OPERATOR", ops[k])>> \o ChainTokens(numeric, ops, k + 1))

OperatorChains == SeqsUpTo(BinaryOperators, MaxChain)

TokenLists ==
    { ChainTokens(numeric, ops, 1) : numeric \in BOOLEAN, ops \in OperatorChains }
    \cup { <<Token("NOT_OPERATOR", "NOT")>> \o ChainTokens(FALSE, ops, 1) :
             ops \in OperatorChains }

InitParse ==
    /\ tokens \in TokenLists
    /\ ast = NoAst
    /\ program = <<>>
    /\ statements = <<>>
    /\ labels = NoVars
    /\ variables = NoVars
    /\ pc = 0
    /\ stack = <<>>
    /\ output = <<>>
    /\ status = "idle"
    /\ error = NoError
    /\ last = NoLast
    /\ storedTo = {}
    /\ sourceLines = <<>>
    /\ sourceText = <<>>
    /\ calls = 0

\* parseExpression() at the first token of the expression
ParseExpression ==
    /\ ast = NoAst
    /\ ast' = parseExpression(tokens, 0, 0)
    /\ UNCHANGED <<tokens, interpVars, sourceLines, sourceText, calls>>

\* evaluateExpression on the parsed tree, in an empty environment
EvaluateParsed ==
    /\ ast # NoAst
    /\ ast.ok
    /\ last = NoLast
    /\ last' = [type |-> "Evaluated", result |-> evaluateExpression(ast.v.node, NoVars)]
    /\ UNCHANGED <<program, statements, labels, variables, pc, stack, output, status,
                   error, storedTo, parseVars, calls>>

NextParse ==
    \/ ParseExpression
    \/ EvaluateParsed

SpecParse == InitParse /\ [][NextParse]_vars

\* ---------------------------------------------------------------- properties
\* the top-level indices at which a Label statement named L stands
TopLevelLabels(L) ==
    {k \in 0 .. Len(statements) - 1 :
        statements[k + 1].type = "Label" /\ statements[k + 1].name = L}

\* executeStatement is about to be called with a Goto
AtGoto == AtStmt /\ Cur.type = "Goto"

\* C1: no GOTO signal is delivered to the caller of execute.  A Goto whose
\* label is in the label table, at any nesting depth, leaves execute running
\* with the program counter set from the table and nothing else touched;
\* whenever execute fails, the object it fails with is an Error and not a
\* signal, and the failure does not move the program counter; execute
\* completes only by running off the end of the statement list.
C1_SignalNeverEscapes ==
    [][ /\ (AtGoto /\ Cur.label \in DOMAIN labels) =>
            /\ status' = "running"
            /\ pc' = labels[Cur.label] + 1
            /\ stack' = <<>>
            /\ UNCHANGED <<variables, output, labels, error>>
        /\ (status' = "failed") =>
            /\ "isGoto" \notin DOMAIN error'
            /\ error'.message # ""
            /\ pc' = pc
        /\ (status' = "done" /\ status # "done") =>
            (stack = <<>> /\ pc >= Len(statements))
      ]_vars

\* C1 witness: a Goto two bodies deep (FOR, then IF) has redirected the
\* dispatch loop, and execute is still running.
C1_Witness ==
    /\ last.type = "Goto"
    /\ last.depth = 2
    /\ status = "running"
    /\ stack = <<>>
    /\ last.node.label \in DOMAIN labels
    /\ pc = labels[last.node.label] + 1

\* C2: a top-level GOTO L at index g, with L the top-level label at an index
\* k > g (and at no other top-level index), continues with the statement
\* after the label: nothing of g+1 .. k-1 runs, no output is produced and no
\* variable changes.
C2_ForwardGotoSkips ==
    [][ (AtGoto /\ stack = <<>>) =>
            \A k \in TopLevelLabels(Cur.label) :
                (k > pc /\ TopLevelLabels(Cur.label) = {k}) =>
                    /\ status' = "running"
                    /\ pc' = k + 1
                    /\ stack' = <<>>
                    /\ UNCHANGED <<variables, output>>
      ]_vars

\* C3: GOTO L fails with 'Label not found' whenever no top-level Label
\* statement is named L, a label nested in a body included; the program
\* counter is not redirected.
C3_MissingLabelFails ==
    [][ (AtGoto /\ TopLevelLabels(Cur.label) = {}) =>
            /\ status' = "failed"
            /\ error'.message = "Label not found"
            /\ pc' = pc
      ]_vars

\* C4: a declared variable keeps the type it was declared with: no step
\* removes it or changes its recorded type.
C4_TypeNeverChanges ==
    [][ \A n \in DOMAIN variables :
            /\ n \in DOMAIN variables'
            /\ variables'[n].type = variables[n].type
      ]_vars

\* LET is about to assign a string to a declared numeric scalar, or a number
\* to a declared STRING scalar
AtLetMismatch ==
    /\ AtStmt
    /\ Cur.type = "Let"
    /\ "variable" \in DOMAIN Cur
    /\ Cur.variable \in DOMAIN variables
    /\ variables[Cur.variable].value.t # "array"
    /\ evaluateExpression(Cur.value, variables).ok
    /\ \/ /\ variables[Cur.variable].type \in {"INTEGER", "SINGLE", "DOUBLE"}
          /\ evaluateExpression(Cur.value, variables).v.t = "string"
       \/ /\ variables[Cur.variable].type = "STRING"
          /\ evaluateExpression(Cur.value, variables).v.t = "number"

\* C5: LET on a declared scalar fails with 'Type mismatch' when the value is
\* a string and the variable numeric, or the value a number and the variable
\* STRING; the variable keeps its value.
C5_LetTypeMismatch ==
    [][ AtLetMismatch =>
            /\ status' = "failed"
            /\ error'.message = "Type mismatch"
            /\ variables' = variables
      ]_vars

\* C5 witness: LET of a string literal to an INTEGER variable has failed.
C5_Witness ==
    /\ status = "failed"
    /\ error.message = "Type mismatch"
    /\ last.type = "Let"
    /\ "variable" \in DOMAIN last.node
    /\ last.node.value.type = "StringLiteral"
    /\ variables[last.node.variable].type = "INTEGER"
    /\ variables[last.node.variable].value = Num(0)

\* the variable holds an array
HoldsArray(name) == name \in DOMAIN variables /\ variables[name].value.t = "array"

\* r is an evaluated index that is an integer outside 0 .. n-1
OutOfRange(r, n) ==
    /\ r.ok
    /\ r.v.t = "number"
    /\ IsInteger(r.v)
    /\ (r.v.n < 0 \/ r.v.n >= n)

\* PRINT of an element of an array is about to run
AtArrayRead ==
    /\ AtStmt
    /\ Cur.type = "Print"
    /\ expressionOf(Cur).type = "ArrayAccess"
    /\ HoldsArray(expressionOf(Cur).array)

\* LET of an element of an array is about to run
AtArrayStore ==
    /\ AtStmt
    /\ Cur.type = "Let"
    /\ "arrayAccess" \in DOMAIN Cur
    /\ HoldsArray(Cur.arrayAccess.array)

ReadOutOfRange ==
    /\ AtArrayRead
    /\ OutOfRange(evaluateExpression(expressionOf(Cur).index, variables),
                  Len(variables[expressionOf(Cur).array].value.a))

StoreOutOfRange ==
    /\ AtArrayStore
    /\ OutOfRange(evaluateExpression(Cur.arrayAccess.index, variables),
                  Len(variables[Cur.arrayAccess.array].value.a))

FailsOutOfBounds == status' = "failed" /\ error'.message = "Array index out of bounds"

\* C6 as stated: every read and every store of an array of size n at an
\* integer index outside 0 .. n-1 fails with 'Array index out of bounds',
\* and a failed store leaves the array unchanged.
C6_OutOfBoundsAlways ==
    [][ /\ ReadOutOfRange => FailsOutOfBounds
        /\ StoreOutOfRange => FailsOutOfBounds
        /\ (AtArrayStore /\ status' = "failed") => variables' = variables
      ]_vars

\* C6: every read of an array of size n at an integer index outside
\* 0 .. n-1 fails with 'Array index out of bounds'; so does every such store
\* whose right-hand side evaluates without error, while a store whose
\* right-hand side fails to evaluate fails with that error, in range or not;
\* a failed store leaves the array unchanged.
C6_OutOfBounds ==
    [][ /\ ReadOutOfRange => FailsOutOfBounds
        /\ (StoreOutOfRange /\ evaluateExpression(expressionOf(Cur), variables).ok)
              => FailsOutOfBounds
        /\ (AtArrayStore /\ evaluateExpression(Cur.arrayAccess.index, variables).ok
                         /\ ~evaluateExpression(expressionOf(Cur), variables).ok)
              => (status' = "failed"
                  /\ error' = evaluateExpression(expressionOf(Cur), variables).e)
        /\ (AtArrayStore /\ status' = "failed") => variables' = variables
      ]_vars

\* C6 witness: a store at index n of an array of n slots has failed with
\* 'Array index out of bounds'.
C6_Witness ==
    /\ status = "failed"
    /\ error.message = "Array index out of bounds"
    /\ last.type = "Let"
    /\ "arrayAccess" \in DOMAIN last.node
    /\ HoldsArray(last.node.arrayAccess.array)
    /\ last.node.arrayAccess.index
         = NumLit(Len(variables[last.node.arrayAccess.array].value.a))

\* C7: right after DIM of an array of size n and type T the array has n
\* slots, each T's default (0 for the numeric types, "" for STRING); and a
\* read of an in-range index that no store has written returns that default.
C7_ArrayDefaults ==
    /\ (last.type = "Dim" /\ "size" \in DOMAIN last.node /\ status = "running") =>
          /\ HoldsArray(last.node.variable)
          /\ Len(variables[last.node.variable].value.a) = last.node.size
          /\ \A i \in 1 .. last.node.size :
                variables[last.node.variable].value.a[i]
                  = IF last.node.variableType = "STRING" THEN Str(<<>>) ELSE Num(0)
    /\ \A n \in DOMAIN variables :
          HoldsArray(n) =>
             \A i \in 0 .. Len(variables[n].value.a) - 1 :
                <<n, i>> \notin storedTo =>
                   evaluateArrayAccess(ArrAcc(n, NumLit(i)), variables)
                     = Ok(IF variables[n].type = "STRING" THEN Str(<<>>) ELSE Num(0))

\* C7 witness: PRINT of slot 0 of a fresh STRING array printed the empty
\* string.
C7_Witness ==
    /\ last.type = "Print"
    /\ expressionOf(last.node) = ArrAcc("X", NumLit(0))
    /\ HoldsArray("X")
    /\ variables["X"].type = "STRING"
    /\ storedTo = {}
    /\ output = <<Str(<<>>)>>

\* C8: FOR i = a TO b STEP s over integers, s # 0, whose body neither fails
\* nor jumps out, runs the body max(0, floor((b-a)/s) + 1) times when s has
\* the sign of b-a or a = b, and no time otherwise.
C8_ForIterationCount ==
    (/\ last.type = "ForDone"
     /\ IsInteger(last.startValue) /\ IsInteger(last.endValue) /\ IsInteger(last.stepValue)
     /\ last.stepValue.n # 0) =>
        last.count =
            IF \/ (last.endValue.n - last.startValue.n) * last.stepValue.n > 0
               \/ last.startValue.n = last.endValue.n
            THEN Max(0, FloorDiv(last.endValue.n - last.startValue.n, last.stepValue.n) + 1)
            ELSE 0

\* C8 witness: FOR i = 2 TO -2 STEP -2 has ended after three iterations.
C8_Witness ==
    /\ last.type = "ForDone"
    /\ last.startValue = Num(2)
    /\ last.endValue = Num(-2)
    /\ last.stepValue = Num(-2)
    /\ last.count = 3

\* the level of a binary operator in the table
\* OR < AND < NOT < comparison < additive < multiplicative
TableLevel(op) ==
    CASE op = "OR" -> 1
      [] op = "AND" -> 2
      [] op \in {"=", "<>", "<", ">", "<=", ">="} -> 4
      [] op \in {"+", "-"} -> 5
      [] op \in {"*", "/"} -> 6

IsOperand(tok) == tok.type \in {"IDENTIFIER", "NUMBER"}

\* the tree of an operand token
OperandNode(tok) ==
    IF tok.type = "IDENTIFIER" THEN Var(tok.value)
    ELSE [type |-> "NumberLiteral", value |-> StrToNum(tok.value)]

\* tokens is  a op1 b op2 c
TwoOperatorChain ==
    /\ Len(tokens) = 6
    /\ IsOperand(tokens[1]) /\ tokens[2].type = "OPERATOR"
    /\ IsOperand(tokens[3]) /\ tokens[4].type = "OPERATOR"
    /\ IsOperand(tokens[5]) /\ tokens[6].type = "EOF"

\* ((a op1 b) op2 c)
LeftNested ==
    Bin(tokens[4].value,
        Bin(tokens[2].value, OperandNode(tokens[1]), OperandNode(tokens[3])),
        OperandNode(tokens[5]))

\* (a op1 (b op2 c))
RightNested ==
    Bin(tokens[2].value, OperandNode(tokens[1]),
        Bin(tokens[4].value, OperandNode(tokens[3]), OperandNode(tokens[5])))

\* tokens is  NOT a op b
NotThenOperator ==
    /\ Len(tokens) = 5
    /\ tokens[1].type = "NOT_OPERATOR"
    /\ IsOperand(tokens[2]) /\ tokens[3].type = "OPERATOR"
    /\ IsOperand(tokens[4]) /\ tokens[5].type = "EOF"

\* C9: a chain of two binary operators of equal precedence parses to the
\* left-nested tree ((a op1 b) op2 c), and 10 - 3 - 2 evaluates to
\* (10 - 3) - 2 = 5.
C9_LeftAssociative ==
    /\ (ast # NoAst /\ TwoOperatorChain
        /\ TableLevel(tokens[2].value) = TableLevel(tokens[4].value)) =>
           (ast.ok /\ ast.v.node = LeftNested)
    /\ (last.type = "Evaluated" /\ tokens = ChainTokens(TRUE, <<"-", "-">>, 1)) =>
           last.result = Ok(Num(5))

\* C10: of two adjacent binary operators of different precedence the one
\* higher in the table binds first, whichever comes first; a prefix NOT
\* takes a following comparison (or arithmetic) as its operand and not a
\* following AND/OR.
C10_PrecedenceTable ==
    /\ (ast # NoAst /\ TwoOperatorChain
        /\ TableLevel(tokens[2].value) # TableLevel(tokens[4].value)) =>
           /\ ast.ok
           /\ ast.v.index = 5
           /\ ast.v.node = IF TableLevel(tokens[2].value) > TableLevel(tokens[4].value)
                           THEN LeftNested ELSE RightNested
    /\ (ast # NoAst /\ NotThenOperator) =>
           /\ ast.ok
           /\ ast.v.node =
                IF tokens[3].value \in {"AND", "OR"}
                THEN Bin(tokens[3].value, Un("NOT", OperandNode(tokens[2])),
                         OperandNode(tokens[4]))
                ELSE Un("NOT", Bin(tokens[3].value, OperandNode(tokens[2]),
                                   OperandNode(tokens[4])))

\* C10 witness: 10 + 3 * 2 has been parsed to 10 + (3 * 2) and evaluated
\* to 16.
C10_Witness ==
    /\ tokens = ChainTokens(TRUE, <<"+", "*">>, 1)
    /\ ast = Parsed(Bin("+", NumLit(10), Bin("*", NumLit(3), NumLit(2))), 5)
    /\ last.type = "Evaluated"
    /\ last.result = Ok(Num(16))

\* the expression a statement evaluates first, for the statements that
\* start by evaluating one
FirstExpression(statement) ==
    CASE statement.type = "Print" -> expressionOf(statement)
      [] statement.type = "Let" /\ "variable" \in DOMAIN statement -> statement.value
      [] statement.type = "If" -> statement.condition
      [] statement.type = "While" -> statement.condition
      [] statement.type = "For" -> statement.start

\* what that evaluation gives; a PRINT of several expressions starts with
\* all of them
FirstResult(statement) ==
    IF statement.type = "Print" /\ "expressions" \in DOMAIN statement
    THEN evaluateArguments(statement.expressions, variables, TRUE)
    ELSE evaluateExpression(FirstExpression(statement), variables)

\* executeStatement is about to run a statement whose first expression
\* raises a runtime error
AtFailingStatement ==
    /\ AtStmt
    /\ \/ Cur.type \in {"If", "While", "For"}
       \/ Cur.type = "Let" /\ "variable" \in DOMAIN Cur
       \/ Cur.type = "Print" /\ expressionOf(Cur).type # "EmptyExpression"
                             /\ Len(output) < MaxOutput
    /\ ~FirstResult(Cur).ok

\* C12: a statement that raises a runtime error aborts the run: execute
\* fails with exactly that error, the output written so far and the
\* variables stay as they are, and no step follows a failure.
C12_FirstErrorAborts ==
    [][ /\ status # "failed"
        /\ AtFailingStatement =>
              /\ status' = "failed"
              /\ error' = FirstResult(Cur).e
        /\ (status' = "failed") =>
              /\ error' # NoError
              /\ UNCHANGED <<output, variables, labels, pc>>
      ]_vars

\* C12 witness: PRINT of an undefined variable failed after a line was
\* written and with a statement still to come.
C12_Witness ==
    /\ status = "failed"
    /\ error = Err("Undefined variable", "U")
    /\ last.type = "Print"
    /\ output = <<Str(<<"a">>)>>
    /\ stack = <<>>
    /\ pc + 1 < Len(statements)

\* ------------------------------------------------------------------- C13
\* the step is a call of execute with resetState = false
RetainingCall == last'.type = "Execute" /\ last'.retain

\* C13: a call of execute with resetState = false keeps every variable
\* binding of the instance as it was, and builds the statement list and the
\* label table from the new source alone.
C13_ReplKeepsVariables ==
    [][ RetainingCall =>
          /\ variables' = variables
          /\ statements' = program'
          /\ labels' = CollectLabels(program', 0, NoVars) ]_vars

\* PRINT x has printed the 42 an earlier line stored with LET x = 42
C13_Witness ==
    /\ calls = 2
    /\ program = <<PrintS(Var("X"))>>
    /\ last.type = "Print"
    /\ "X" \in DOMAIN variables
    /\ variables["X"].value = Num(42)
    /\ Len(output) > 0
    /\ output[Len(output)] = Str(<<"4", "2">>)

\* ------------------------------------------------------------------- C14
\* the step is a plain call of execute(source)
PlainCall == last'.type = "Execute" /\ ~last'.retain

\* C14: a plain call of execute(source) starts from a clean state: no
\* variable is bound, the labels are those of the new source, the
\* statements are those of the new source, whatever an earlier call, completed
\* or failed, left behind.
C14_ExecuteResets ==
    [][ PlainCall =>
          /\ variables' = NoVars
          /\ statements' = program'
          /\ labels' = CollectLabels(program', 0, NoVars)
          /\ pc' = 0
          /\ stack' = <<>> ]_vars

\* a second plain call has started on an instance that held a variable and a
\* label
C14_Witness ==
    /\ calls = 2
    /\ last.type = "Execute"
    /\ ~last.retain
    /\ last.had # NoVars
    /\ last.hadLabels # NoVars
    /\ variables = NoVars
    /\ labels = NoVars
    /\ status = "running"

\* ------------------------------------------------------------------- C15
\* the dispatch loop is at PRINT l / r where l is a number and r is zero
AtDivisionByZero ==
    /\ AtStmt
    /\ Cur.type = "Print"
    /\ Len(output) < MaxOutput
    /\ expressionOf(Cur).type = "BinaryExpression"
    /\ expressionOf(Cur).operator = "/"
    /\ evaluateExpression(expressionOf(Cur).left, variables).ok
    /\ TypeOf(evaluateExpression(expressionOf(Cur).left, variables).v) = "number"
    /\ evaluateExpression(expressionOf(Cur).right, variables) = Ok(Num(0))

AtPrintBoolean ==
    /\ AtStmt
    /\ Cur.type = "Print"
    /\ Len(output) < MaxOutput
    /\ \/ /\ expressionOf(Cur).type = "BinaryExpression"
          /\ expressionOf(Cur).operator \in {"=", "<>", "<", ">", "<=", ">=", "AND", "OR"}
       \/ /\ expressionOf(Cur).type = "UnaryExpression"
          /\ expressionOf(Cur).operator = "NOT"
    /\ evaluateExpression(expressionOf(Cur), variables).ok

\* the result the PRINT is about to write is true
PrintsTrue == evaluateExpression(expressionOf(Cur), variables).v = Bool(TRUE)

\* the line the step wrote
LineWritten == consoleLog(output'[Len(output')])

\* C16 as stated: PRINT of a comparison or of AND, OR, NOT writes the line
\* -1 for true and 0 for false.
C16_PrintsMinusOne ==
    [][ AtPrintBoolean =>
          /\ Len(output') = Len(output) + 1
          /\ LineWritten = (IF PrintsTrue THEN <<"-", "1">> ELSE <<"0">>) ]_vars

\* C16 amended: PRINT of a single expression that is a comparison or an AND,
\* OR or NOT hands the boolean result itself to the console, which writes the
\* line true for true and false for false, and the next statement runs.
C16_PrintsBoolean ==
    [][ AtPrintBoolean =>
          /\ output' = Append(output, Bool(PrintsTrue))
          /\ LineWritten = (IF PrintsTrue THEN <<"t", "r", "u", "e">>
                            ELSE <<"f", "a", "l", "s", "e">>)
          /\ status' = "running"
          /\ pc' = pc + 1 ]_vars

\* PRINT NOT 0 AND 1 wrote true and the next statement ran
C16_Witness ==
    /\ program = <<PrintS(Bin("AND", Un("NOT", NumLit(0)), NumLit(1))), PrintS(StrLit(<<"e">>))>>
    /\ output = <<Bool(TRUE), Str(<<"e">>)>>
    /\ consoleLog(output[1]) = <<"t", "r", "u", "e">>
    /\ status = "done"

\* ------------------------------------------------------------------- C18
\* the dispatch loop is at a DIM of a name that is already declared
AtRedeclaration ==
    /\ AtStmt
    /\ Cur.type = "Dim"
    /\ Cur.variable \in DOMAIN variables

\* C18: DIM of a name that already exists, however it came to exist (DIM of
\* a scalar or an array, or the automatic declaration of LET, INPUT or FOR),
\* fails with 'Variable <NAME> already declared' and leaves the variable's
\* type and value as they were.
C18_RedeclarationFails ==
    [][ AtRedeclaration =>
          /\ status' = "failed"
          /\ error' = Err("Variable already declared", Cur.variable)
          /\ variables' = variables ]_vars

\* the ways a name came to exist before its DIM failed
DeclaredBy(first) ==
    /\ Len(program) = 2
    /\ program[1].type = first
    /\ program[2].type = "Dim"
    /\ status = "failed"
    /\ error = Err("Variable already declared", "X")

\* LET X = 5 declared X, DIM X AS STRING failed and X is still the number 5
C18_Witness ==
    /\ program = <<LetS("X", NumLit(5)), DimS("X", "STRING")>>
    /\ DeclaredBy("Let")
    /\ variables["X"].value = Num(5)
    /\ variables["X"].type # "STRING"

\* ------------------------------------------------------------------- C19
\* the program is a counting loop and n is its limit
IsCounterLoop(n) == program = CounterLoop(n)

\* C19: a backward GOTO to the top-level label at index k continues with the
\* statement after the label, touching neither variables nor output; and the
\* counting loop L: C = C + 1: IF C < n THEN GOTO L, started with C = 0, never
\* fails, never counts beyond n, and ends with C = n, the increment having
\* run n times.
C19_BackwardGoto ==
    /\ [][ AtGoto =>
             \A k \in TopLevelLabels(Cur.label) :
                 (k < pc /\ TopLevelLabels(Cur.label) = {k}) =>
                     /\ status' = "running"
                     /\ pc' = k + 1
                     /\ stack' = <<>>
                     /\ UNCHANGED <<variables, output>> ]_vars
    /\ [](\A n \in 1 .. MaxCount :
             IsCounterLoop(n) =>
                 /\ status # "failed"
                 /\ "C" \in DOMAIN variables => NumLe(variables["C"].value, Num(n))
                 /\ status = "done" =>
                        /\ variables["C"].value = Num(n)
                        /\ output = <<Str(NatToStr(n))>>)

\* ------------------------------------------------------------------- C20
\* C20: a GOTO executed inside a WHILE, FOR or IF body, at any depth, whose
\* label is the top-level label at index k abandons every enclosing body and
\* loop (no call of a loop or branch handler stays active, so nothing of a
\* body runs and no condition is evaluated without the loop being entered
\* anew) and continues with the statement after the label, touching neither
\* variables nor output.
C20_GotoLeavesLoops ==
    [][ (AtGoto /\ stack # <<>>) =>
          \A k \in TopLevelLabels(Cur.label) :
              TopLevelLabels(Cur.label) = {k} =>
                  /\ status' = "running"
                  /\ stack' = <<>>
                  /\ pc' = k + 1
                  /\ UNCHANGED <<variables, output>> ]_vars

\* ------------------------------------------------------------------- C17
\* the expression a PRINT or a LET of a variable evaluates
StatementExpression == IF Cur.type = "Print" THEN expressionOf(Cur) ELSE Cur.value

\* the dispatch loop is at a PRINT or LET whose expression calls a numeric
\* built-in with one argument that evaluates to a string
AtNumericCallOfString ==
    /\ AtStmt
    /\ \/ Cur.type = "Print" /\ Len(output) < MaxOutput
       \/ Cur.type = "Let" /\ "variable" \in DOMAIN Cur
    /\ StatementExpression.type = "FunctionCall"
    /\ StatementExpression.name \in NumericBuiltins
    /\ Len(StatementExpression.arguments) = 1
    /\ evaluateExpression(StatementExpression.arguments[1], variables).ok
    /\ TypeOf(evaluateExpression(StatementExpression.arguments[1], variables).v) = "string"

\* C17: a numeric built-in called with a string argument fails with
\* 'Function <NAME> expects numeric arguments', and the statement leaves
\* variables and output as they were.
C17_NumericArguments ==
    [][ AtNumericCallOfString =>
          /\ status' = "failed"
          /\ error' = Err("Function expects numeric arguments", StatementExpression.name)
          /\ UNCHANGED <<variables, output>> ]_vars

\* what execute made of the source is what r, a result of parse, leads to
ExecutedAs(r) ==
    IF r.ok
    THEN status' = "running" /\ statements' = r.v
    ELSE status' = "failed" /\ error' = r.e

\* C11: a colon separates statements exactly as a line break does: execute
\* on the statements joined by colons parses to the statement list, or fails
\* with the error, of the statements joined by line breaks, and so produces
\* the same output; FOR i = 1 TO 3: PRINT i: NEXT i, where the statement
\* before a colon ends with an identifier, does not fail and writes 1, 2, 3.
C11_ColonSeparates ==
    /\ [][(status = "idle" /\ status' # "idle")
             => ExecutedAs(parse(Join(sourceLines, "\n")))]_vars
    /\ [](sourceLines = ForLines
             => /\ status # "failed"
                /\ status = "done"
                     => output = <<Str(<<"1">>), Str(<<"2">>), Str(<<"3">>)>>)

\* the block a line closes, "" when it closes none
Closes(line) ==
    IF line = WendLine THEN "WHILE"
    ELSE IF line = NextLine THEN "FOR"
    ELSE IF line = EndIfLine THEN "IF"
    ELSE ""

\* the block a line opens, "" when it opens none
Opens(line) ==
    IF line = WhileLine THEN "WHILE"
    ELSE IF line = ForLine THEN "FOR"
    ELSE IF line = IfLine THEN "IF"
    ELSE ""

\* every block of the lines is closed by its own closer, innermost first;
\* open is the stack of the blocks open so far
RECURSIVE WellNested(_, _)
WellNested(lines, open) ==
    IF lines = <<>> THEN open = <<>>
    ELSE IF Opens(lines[1]) # ""
    THEN WellNested(Tail(lines), <<Opens(lines[1])>> \o open)
    ELSE IF Closes(lines[1]) # ""
    THEN /\ open # <<>>
         /\ open[1] = Closes(lines[1])
         /\ WellNested(Tail(lines), Tail(open))
    ELSE WellNested(Tail(lines), open)

\* C21: parse rejects every unclosed or mismatched block, also a nested
\* one: execute on a program of block lines in which an IF, a FOR or a WHILE
\* is not closed, or a closer does not close the innermost open block, fails
\* and never runs a statement list.
C21_UnclosedBlocksRejected ==
    [][(/\ status = "idle"
        /\ status' # "idle"
        /\ sourceLines \in BlockPrograms
        /\ ~WellNested(sourceLines, <<>>))
          => status' = "failed"]_vars

\* the positions of the EOF tokens
EofPositions == {k \in 1..Len(tokens) : tokens[k].type = "EOF"}

\* an EOF token is the last token and does not follow a separator
EofLastAfterStatement ==
    \A k \in EofPositions :
        /\ k = Len(tokens)
        /\ k > 1 => tokens[k - 1].type # "NEWLINE"

\* C22 as stated: every token sequence holds exactly one EOF token, the
\* last one, and the token before it is no line break or colon token.
C22_ExactlyOneEof ==
    status = "tokenized"
        => Cardinality(EofPositions) = 1 /\ EofLastAfterStatement

\* C22 amended: every token sequence holds at most one EOF token, which is
\* the last token and never follows a line break or colon token; the EOF
\* token is there exactly when the sequence would otherwise be empty or end
\* with a token that is no separator, so a sequence ends with an EOF or with
\* a separator token.
C22_EofUnlessSeparator ==
    status = "tokenized"
        => /\ Cardinality(EofPositions) <= 1
           /\ EofLastAfterStatement
           /\ tokens # <<>>
           /\ tokens[Len(tokens)].type \in {"EOF", "NEWLINE"}
           /\ (EofPositions = {}) = (tokens[Len(tokens)].type = "NEWLINE")

\* a source that ends with a separator was tokenized: no EOF token
C22_Witness ==
    /\ status = "tokenized"
    /\ Len(tokens) >= 2
    /\ tokens[Len(tokens)].type = "NEWLINE"
    /\ tokens[Len(tokens)].value = ":"
    /\ EofPositions = {}

\* ------------------------------------------------------------------- C23
\* the truth value the claim gives to a value: a nonzero number, the boolean
\* true and a non-empty string are true
ClaimedTruth(v) ==
    CASE v.t = "number" -> v # Num(0)
      [] v.t = "boolean" -> v.b
      [] v.t = "string" -> v.s # <<>>
      [] OTHER -> TRUE

\* the dispatch loop is at a PRINT of a AND b or a OR b whose operands
\* evaluate
AtPrintLogical ==
    /\ AtStmt
    /\ Cur.type = "Print"
    /\ "expression" \in DOMAIN Cur
    /\ Len(output) < MaxOutput
    /\ expressionOf(Cur).type = "BinaryExpression"
    /\ expressionOf(Cur).operator \in {"AND", "OR"}
    /\ evaluateExpression(expressionOf(Cur).left, variables).ok
    /\ evaluateExpression(expressionOf(Cur).right, variables).ok

\* the result of the operator on the claimed truth values of the operands
LogicalOf(operator, left, right) ==
    IF operator = "AND"
    THEN ClaimedTruth(left) /\ ClaimedTruth(right)
    ELSE ClaimedTruth(left) \/ ClaimedTruth(right)

\* C23: AND and OR take an operand as true exactly when it is a nonzero
\* number, the boolean true or a non-empty string: PRINT a AND b and
\* PRINT a OR b write the conjunction and the disjunction of these truth
\* values, which are the truth values IF and NOT give to the operand (IF a
\* ran its THEN branch, and PRINT NOT a wrote false, exactly when a is true).
C23_LogicalOperands ==
    /\ [][ AtPrintLogical =>
             output' = Append(output,
                 Bool(LogicalOf(expressionOf(Cur).operator,
                                evaluateExpression(expressionOf(Cur).left, variables).v,
                                evaluateExpression(expressionOf(Cur).right, variables).v))) ]_vars
    /\ [](program \in TruthPrograms /\ Len(output) >= 2
            => /\ (output[1] = Str(<<"t">>))
                    = ClaimedTruth(evaluateExpression(program[1].condition, NoVars).v)
               /\ output[2] = Bool(output[1] # Str(<<"t">>)))

\* ------------------------------------------------------------------- C24
\* the dispatch loop is at a store a(e) = v into an array, e and v evaluate
\* and v is of the array's type, so that the index alone decides
AtTypedStore ==
    /\ AtStmt
    /\ Cur.type = "Let"
    /\ "arrayAccess" \in DOMAIN Cur
    /\ Cur.arrayAccess.array \in DOMAIN variables
    /\ variables[Cur.arrayAccess.array].value.t = "array"
    /\ evaluateExpression(Cur.arrayAccess.index, variables).ok
    /\ evaluateExpression(expressionOf(Cur), variables).ok
    /\ validateType(variables[Cur.arrayAccess.array].type,
                    evaluateExpression(expressionOf(Cur), variables).v) = ""

\* C24: an array store a(e) = v checks its index as the read a(e) does, a
\* non-integer index being floored before the range check: the store passes
\* exactly when the read of the same index passes, and a store that passed
\* wrote the slot which that read returns.
C24_StoreChecksAsRead ==
    [][ AtTypedStore =>
          /\ (status' # "failed") = evaluateArrayAccess(Cur.arrayAccess, variables).ok
          /\ status' # "failed" =>
                evaluateArrayAccess(Cur.arrayAccess, variables')
                    = Ok(evaluateExpression(expressionOf(Cur), variables).v) ]_vars

\* ------------------------------------------------------------------- C25
\* the values of A, N and S when the loop of a FixedForProgram is entered
EntryStart == program[1].value.value.n

EntryEnd == program[2].value.value.n

EntryStep == program[3].value.value.n

\* the number of values start, start + step, ... that do not pass the end
EntryCount ==
    IF EntryStep > 0
    THEN (IF EntryStart <= EntryEnd THEN (EntryEnd - EntryStart) \div EntryStep + 1 ELSE 0)
    ELSE (IF EntryStart >= EntryEnd THEN (EntryStart - EntryEnd) \div (-EntryStep) + 1 ELSE 0)

\* the line PRINT I writes at the beginning of iteration k
EntryLine(k) == PrintArg(Num(EntryStart + (k - 1) * EntryStep))

LabelTableSound ==
    \A name \in DOMAIN labels :
        /\ labels[name] \in 0 .. Len(statements) - 1
        /\ statements[labels[name] + 1].type = "Label"
        /\ statements[labels[name] + 1].name = name

\* C26: during the dispatch pass every entry of the label table maps a name
\* to the in-range index of the Label statement of that name, no statement
\* executed, a Label at any depth or a duplicate label included, changes the
\* table the pre-pass built, and a GOTO sets the program counter to an
\* in-range index.
C26_LabelTableFixed ==
    /\ [](status \in {"running", "done", "failed"} => LabelTableSound)
    /\ [][status = "running" => labels' = labels]_vars
    /\ [][status = "running" /\ status' = "running" =>
             pc' \in 0 .. Len(statements)]_vars

\* ------------------------------------------------------------------- C27
\* a value is of the declared type
OfType(type, value) ==
    CASE type = "STRING" -> value.t = "string"
      [] type \in {"SINGLE", "DOUBLE"} -> value.t = "number"
      [] type = "INTEGER" -> value.t = "number" /\ IsInteger(value)
      [] OTHER -> FALSE

\* a variable holds a value of its type, an array one in every slot
Conforms(variable) ==
    IF variable.value.t = "array"
    THEN \A k \in 1 .. Len(variable.value.a) : OfType(variable.type, variable.value.a[k])
    ELSE OfType(variable.type, variable.value)

\* C27: in every reachable state each variable's value conforms to its
\* declared type: a STRING variable holds a string, a SINGLE or DOUBLE
\* variable a number, an INTEGER variable and every slot of an INTEGER array
\* an integer-valued number.
C27_ValuesConform ==
    \A name \in DOMAIN variables : Conforms(variables[name])

\* ------------------------------------------------------------------- C28
\* the name is bound to an array
IsArrayOf(vars0, name) == name \in DOMAIN vars0 /\ vars0[name].value.t = "array"

\* C28: once DIM has created an array under a name, the name stays bound to
\* an array of the same number of slots for the rest of the run: no LET,
\* INPUT or FOR on the name replaces the array by a scalar or changes its
\* length, and every in-range read a(i) keeps succeeding.
C28_ArraysStay ==
    [][ \A name \in DOMAIN variables :
          (status = "running" /\ IsArrayOf(variables, name)) =>
              /\ IsArrayOf(variables', name)
              /\ Len(variables'[name].value.a) = Len(variables[name].value.a)
              /\ \A i \in 0 .. Len(variables[name].value.a) - 1 :
                    evaluateArrayAccess(ArrAcc(name, NumLit(i)), variables').ok ]_vars

\* ------------------------------------------------------------------- C29
\* start, end and step of the FOR loop of a StepProgram
LoopStart == program[1].start.value.n

LoopEnd == program[1].end.value.n

LoopStep == program[1].step.value.n

\* C29 as stated: every FOR loop whose body ends and does not jump is left
\* after finitely many iterations, whatever start, end and step are, the
\* step 0 included: execute comes to its end.
C29_EveryForTerminates == (status = "idle") ~> (status \in {"done", "failed"})

\* C29 amended: with a step other than 0 the loop is left after finitely
\* many iterations; with the step 0 it is left, without an iteration, when
\* start < end, and it is never left when start >= end.
C29_ForTerminates ==
    /\ (status = "idle" /\ LoopStep # 0) ~> (status = "done")
    /\ (status = "idle" /\ LoopStep = 0 /\ LoopStart < LoopEnd) ~> (status = "done")
    /\ [](LoopStep = 0 /\ LoopStart < LoopEnd => stack = <<>>)
    /\ [](LoopStep = 0 /\ LoopStart >= LoopEnd => status \in {"idle", "running"})

\* a loop of several iterations with a descending step came to its end,
\* its body having assigned the loop variable
C29_Witness ==
    /\ status = "done"
    /\ LoopStep < 0
    /\ LoopStart - LoopEnd >= 2
    /\ program[1].body[1].type = "Let"
    /\ variables["I"].value = Num(0)

\* ------------------------------------------------------------------- C30
\* the expressions evaluated one after another from left to right: the
\* values, or the error of the leftmost failing expression
RECURSIVE evaluateInOrder(_, _)
InOrder(first, arguments, vars0) ==
    IF ~first.ok THEN first ELSE evaluateInOrder(Tail(arguments), vars0)

evaluateInOrder(arguments, vars0) ==
    IF arguments = <<>> THEN Ok(<<>>)
    ELSE InOrder(evaluateExpression(arguments[1], vars0), arguments, vars0)

\* the expression list of the PRINT the dispatch loop is at: the list of
\* PRINT e1; e2, or the arguments of the call in PRINT F(e1, e2)
ListAtPrint ==
    IF "expressions" \in DOMAIN Cur THEN Cur.expressions ELSE Cur.expression.arguments

\* the dispatch loop is at a PRINT list, or at a PRINT of a built-in call,
\* in which two or more expressions fail
AtFailingList ==
    /\ AtStmt
    /\ Cur.type = "Print"
    /\ Len(output) < MaxOutput
    /\ \/ "expressions" \in DOMAIN Cur
       \/ /\ Cur.expression.type = "FunctionCall"
          /\ Cur.expression.name \in BuiltinNames
    /\ Cardinality({k \in 1 .. Len(ListAtPrint) :
                        ~evaluateExpression(ListAtPrint[k], variables).ok}) >= 2

\* C30: when two or more expressions of a PRINT list or of the argument list
\* of a built-in call fail, execute fails with the error of the leftmost
\* failing expression, as evaluation from left to right gives it.
C30_LeftmostError ==
    [][ AtFailingList =>
          /\ status' = "failed"
          /\ error' = evaluateInOrder(ListAtPrint, variables).e ]_vars

====
